---------------------------- MODULE Spec2Model ----------------------------
(***************************************************************************)
(* A model of the sentiment-decision engine of app.py: the text            *)
(* normalizer with its FIFO-bounded cache (SentimentAnalyzer               *)
(* .preprocess_text), the override rule chain (_get_enhanced_sentiment)    *)
(* and the decision procedure (analyze_sentiment).                         *)
(*                                                                         *)
(* Texts are TLA+ strings handled character by character, as the Python    *)
(* code handles them.  Scores are integers in units of 0.00001, so that    *)
(* 0.8 is 80000, the label thresholds +-0.05 are +-5000 and rounding to 4  *)
(* decimal places is rounding to a multiple of 10.                         *)
(***************************************************************************)
EXTENDS Integers, Sequences, FiniteSets, TLC

(***************************************************************************)
(* Python values that reach analyze_sentiment: strings, None, integers.    *)
(***************************************************************************)
PyStr(s) == [type |-> "str", s |-> s]

PyNone == [type |-> "NoneType"]

PyInt(n) == [type |-> "int", n |-> n]

\* a list, given as the sequence of its items
PyList(l) == [type |-> "list", l |-> l]

\* a dict with string keys, given as the sequence of its <<key, value>> items
PyDict(items) == [type |-> "dict", items |-> items]

\* isinstance(text, str)
isinstance_str(v) == v.type = "str"

\* Python truthiness of the value: `not text` is its negation.
truthy(v) ==
    CASE v.type = "str" -> v.s # ""
      [] v.type = "NoneType" -> FALSE
      [] v.type = "int" -> v.n # 0
      [] v.type = "list" -> Len(v.l) # 0
      [] v.type = "dict" -> Len(v.items) # 0

(***************************************************************************)
(* Strings.  The operators work by position, and concatenate by halves, so *)
(* that the depth of evaluation stays logarithmic in the length of a text. *)
(***************************************************************************)
CharsOf(s) == {SubSeq(s, i, i) : i \in 1..Len(s)}

LowerLetters == "abcdefghijklmnopqrstuvwxyz"

UpperLetters == "ABCDEFGHIJKLMNOPQRSTUVWXYZ"

DigitChars == "0123456789"

\* \s of the re module, for the characters the texts use
Whitespace == {" ", "\t", "\n"}

Min(S) == CHOOSE x \in S : \A y \in S : x <= y

Max(S) == CHOOSE x \in S : \A y \in S : x >= y

\* s[i-1], as a string of one character
At(s, i) == SubSeq(s, i, i)

\* s[:n]
Take(s, n) == IF Len(s) <= n THEN s ELSE SubSeq(s, 1, n)

\* s.startswith(p, i-1)
HasAt(s, i, p) == i + Len(p) - 1 <= Len(s) /\ SubSeq(s, i, i + Len(p) - 1) = p

\* p in s
Contains(p, s) == \E i \in 1..(Len(s) - Len(p) + 1) : HasAt(s, i, p)

RECURSIVE ConcatStr(_, _, _)
\* f[lo] + ... + f[hi], f a function of strings
ConcatStr(f, lo, hi) ==
    IF lo > hi THEN ""
    ELSE IF lo = hi THEN f[lo]
    ELSE LET mid == (lo + hi) \div 2
         IN  ConcatStr(f, lo, mid) \o ConcatStr(f, mid + 1, hi)

RECURSIVE ConcatSeq(_, _, _)
\* f[lo] + ... + f[hi], f a function of lists
ConcatSeq(f, lo, hi) ==
    IF lo > hi THEN <<>>
    ELSE IF lo = hi THEN f[lo]
    ELSE LET mid == (lo + hi) \div 2
         IN  ConcatSeq(f, lo, mid) \o ConcatSeq(f, mid + 1, hi)

\* one character of str.lower()
LowerChar(c) ==
    IF \E i \in 1..26 : At(UpperLetters, i) = c
    THEN LET i == CHOOSE i \in 1..26 : At(UpperLetters, i) = c
         IN  At(LowerLetters, i)
    ELSE c

\* str.lower()
lower(s) == ConcatStr([i \in 1..Len(s) |-> LowerChar(At(s, i))], 1, Len(s))

\* str.replace(old, new): every non-overlapping occurrence of old, leftmost
\* first.  taken[i]: the scan takes the occurrence that starts at i, which
\* it does when no occurrence it took earlier overlaps it.
replace(s, old, new) ==
    LET n == Len(s)
        m == Len(old)
        taken[i \in 1..n] ==
            HasAt(s, i, old) /\ \A j \in (i - m + 1)..(i - 1) : j >= 1 => ~taken[j]
        covered(i) == \E j \in (i - m + 1)..(i - 1) : j >= 1 /\ taken[j]
    IN  ConcatStr([i \in 1..n |-> IF taken[i] THEN new
                                  ELSE IF covered(i) THEN "" ELSE At(s, i)],
                  1, n)

\* pattern.search(s) for a pattern "a.*b": a, then b later on the same line
\* (the dot does not match a newline)
SearchDotStar(a, b, s) ==
    \E i \in 1..(Len(s) - Len(a) + 1) :
        /\ HasAt(s, i, a)
        /\ \E j \in (i + Len(a))..(Len(s) - Len(b) + 1) :
              /\ HasAt(s, j, b)
              /\ ~Contains("\n", SubSeq(s, i + Len(a), j - 1))

\* " ".join(tokens)
join(tokens) ==
    ConcatStr([i \in 1..Len(tokens) |->
                  IF i = 1 THEN tokens[1] ELSE " " \o tokens[i]],
              1, Len(tokens))

(***************************************************************************)
(* SentimentAnalyzer.__init__: the lexicons and the compiled patterns.     *)
(***************************************************************************)
\* stopwords.words("english") of NLTK
stop_words ==
    {"i", "me", "my", "myself", "we", "our", "ours", "ourselves", "you",
     "you're", "you've", "you'll", "you'd", "your", "yours", "yourself",
     "yourselves", "he", "him", "his", "himself", "she", "she's", "her",
     "hers", "herself", "it", "it's", "its", "itself", "they", "them",
     "their", "theirs", "themselves", "what", "which", "who", "whom", "this",
     "that", "that'll", "these", "those", "am", "is", "are", "was", "were",
     "be", "been", "being", "have", "has", "had", "having", "do", "does",
     "did", "doing", "a", "an", "the", "and", "but", "if", "or", "because",
     "as", "until", "while", "of", "at", "by", "for", "with", "about",
     "against", "between", "into", "through", "during", "before", "after",
     "above", "below", "to", "from", "up", "down", "in", "out", "on", "off",
     "over", "under", "again", "further", "then", "once", "here", "there",
     "when", "where", "why", "how", "all", "any", "both", "each", "few",
     "more", "most", "other", "some", "such", "no", "nor", "not", "only",
     "own", "same", "so", "than", "too", "very", "s", "t", "can", "will",
     "just", "don", "don't", "should", "should've", "now", "d", "ll", "m",
     "o", "re", "ve", "y", "ain", "aren", "aren't", "couldn", "couldn't",
     "didn", "didn't", "doesn", "doesn't", "hadn", "hadn't", "hasn",
     "hasn't", "haven", "haven't", "isn", "isn't", "ma", "mightn",
     "mightn't", "mustn", "mustn't", "needn", "needn't", "shan", "shan't",
     "shouldn", "shouldn't", "wasn", "wasn't", "weren", "weren't", "won",
     "won't", "wouldn", "wouldn't"}

\* url_pattern: the characters of the body alternation
\* [a-zA-Z] | [0-9] | [$-_@.&+] | [!*\\(\\),] ; the range $-_ runs from
\* 0x24 to 0x5F and so holds the digits, the capitals and most punctuation.
UrlBodyChars ==
    CharsOf(LowerLetters) \cup CharsOf(UpperLetters) \cup CharsOf(DigitChars)
      \cup CharsOf("$%&'()*+,-./:;<=>?@[\\]^_!")

\* special_chars_pattern: the characters it keeps,
\* [a-zA-Z0-9\s\.\!\?\,\;\:\-\(\)]
KeptChars ==
    CharsOf(LowerLetters) \cup CharsOf(UpperLetters) \cup CharsOf(DigitChars)
      \cup Whitespace \cup CharsOf(".!?,;:-()")

negation_words ==
    {"not", "no", "never", "nothing", "nowhere", "noone", "none", "not a",
     "isn't", "aren't", "wasn't", "weren't", "don't", "doesn't", "didn't",
     "won't", "wouldn't", "couldn't", "shouldn't"}

\* the double-negation phrases without 'not bad'
double_negation_patterns_short ==
    << <<"not terrible", "good">>,
       <<"not awful", "good">>, <<"don't dislike", "like">>,
       <<"not ungood", "good">>, <<"not unhappy", "happy">> >>

double_negation_patterns ==
    << <<"not bad", "good">>, <<"not terrible", "good">>,
       <<"not awful", "good">>, <<"don't dislike", "like">>,
       <<"not ungood", "good">>, <<"not unhappy", "happy">> >>

\* dict, in insertion order
slang_words ==
    << <<"goat", "greatest of all time">>, <<"sick", "excellent">>,
       <<"lit", "excellent">>, <<"fire", "excellent">>,
       <<"dope", "excellent">>, <<"cool", "good">> >>

\* dict, in insertion order
idioms ==
    << <<"arm and a leg", "expensive">>, <<"letdown", "disappointment">>,
       <<"ages", "long time">>, <<"sick sound", "bad sound">>,
       <<"costs an arm and a leg", "expensive">> >>

\* each r"a.*b" as <<a, b>>; every entry carries the score -1
sarcasm_patterns ==
    << <<"oh great", "delay">>, <<"oh wonderful", "problem">>,
       <<"love it when", "freeze">>, <<"exactly", "wanted">>,
       <<"perfect", "situation">> >>

negation_patterns ==
    << <<"not good", "bad">>, <<"not bad", "good">>, <<"not great", "bad">>,
       <<"not excellent", "bad">>, <<"not wonderful", "bad">> >>

(***************************************************************************)
(* The normalization pipeline: preprocess_text without its cache.          *)
(***************************************************************************)
RECURSIVE ExpandAll(_, _, _)
\* one loop of _expand_slang_and_idioms: for phrase, meaning in table:
\*     if phrase in text_lower: text = text.replace(phrase, meaning)
\* The membership test reads text_lower, the copy taken before any
\* replacement; the replacement acts on the live text.
ExpandAll(table, text_lower, text) ==
    IF table = <<>> THEN text
    ELSE ExpandAll(Tail(table), text_lower,
                   IF Contains(table[1][1], text_lower)
                   THEN replace(text, table[1][1], table[1][2])
                   ELSE text)

\* slang first, idioms second
_expand_slang_first(text) ==
    LET text_lower == lower(text)
    IN  ExpandAll(idioms, text_lower, ExpandAll(slang_words, text_lower, text))

\* idioms first, slang second
_expand_slang_and_idioms(text) ==
    LET text_lower == lower(text)
    IN  ExpandAll(slang_words, text_lower, ExpandAll(idioms, text_lower, text))

\* the length of the match of url_pattern that starts at position i of s,
\* 0 when there is none: http, an optional s, ://, then one or more body
\* characters, as many as there are
UrlMatchLen(s, i) ==
    LET n == Len(s)
        scheme == IF HasAt(s, i, "https://") THEN 8
                  ELSE IF HasAt(s, i, "http://") THEN 7 ELSE 0
        from == i + scheme
        stop == Min({k \in from..(n + 1) : k = n + 1 \/ At(s, k) \notin UrlBodyChars})
    IN  IF scheme = 0 \/ stop = from THEN 0 ELSE stop - i

\* url_pattern.sub("", text): the matches the scan takes, leftmost first
url_sub(s) ==
    LET n == Len(s)
        taken[i \in 1..n] ==
            UrlMatchLen(s, i) > 0
              /\ \A j \in 1..(i - 1) : taken[j] => j + UrlMatchLen(s, j) <= i
        covered(i) == \E j \in 1..(i - 1) : taken[j] /\ j + UrlMatchLen(s, j) > i
    IN  ConcatStr([i \in 1..n |-> IF taken[i] \/ covered(i) THEN "" ELSE At(s, i)],
                  1, n)

\* email_pattern.sub("", text), the pattern being \S+@\S+ : a maximal run of
\* non-whitespace goes when it holds an '@' that is neither its first nor
\* its last character (both \S+ are greedy)
email_sub(s) ==
    LET n == Len(s)
        run_first(i) == Max({j \in 1..i : j = 1 \/ At(s, j - 1) \in Whitespace})
        run_last(i) == Min({j \in i..n : j = n \/ At(s, j + 1) \in Whitespace})
        gone(i) == /\ At(s, i) \notin Whitespace
                   /\ \E p \in (run_first(i) + 1)..(run_last(i) - 1) : At(s, p) = "@"
    IN  ConcatStr([i \in 1..n |-> IF gone(i) THEN "" ELSE At(s, i)], 1, n)

\* special_chars_pattern.sub(" ", text)
special_sub(s) ==
    ConcatStr([i \in 1..Len(s) |-> IF At(s, i) \in KeptChars THEN At(s, i) ELSE " "],
              1, Len(s))

\* str.strip()
strip(s) ==
    LET n == Len(s)
        lead == Min({k \in 1..(n + 1) : k = n + 1 \/ At(s, k) \notin Whitespace})
        trail == Max({k \in 0..n : k = 0 \/ At(s, k) \notin Whitespace})
    IN  IF lead > trail THEN "" ELSE SubSeq(s, lead, trail)

\* whitespace_pattern.sub(" ", text).strip(): each run of whitespace becomes
\* one space
whitespace_sub(s) ==
    strip(ConcatStr([i \in 1..Len(s) |->
                        IF At(s, i) \notin Whitespace THEN At(s, i)
                        ELSE IF i = 1 \/ At(s, i - 1) \notin Whitespace THEN " "
                        ELSE ""],
                    1, Len(s)))

\* word_tokenize of NLTK on what the substitutions leave (letters, digits,
\* single spaces and . ! ? , ; : - ( )): the text splits at spaces; each of
\* , ; : ! ? ( ) is a token of its own; a period is a token of its own where
\* it ends a space-delimited chunk and stays inside the word elsewhere; a
\* hyphen stays inside the word.  (Ellipses, numbers with separators and
\* abbreviations, which NLTK treats specially, are outside the texts used.)
word_tokenize(s) ==
    LET n == Len(s)
        single(i) == \/ At(s, i) \in {",", ";", ":", "!", "?", "(", ")"}
                     \/ At(s, i) = "." /\ (i = n \/ At(s, i + 1) = " ")
        inword(i) == At(s, i) # " " /\ ~single(i)
        wordend(i) == Min({j \in i..n : j = n \/ ~inword(j + 1)})
    IN  ConcatSeq([i \in 1..n |->
                      IF single(i) THEN <<At(s, i)>>
                      ELSE IF inword(i) /\ (i = 1 \/ ~inword(i - 1))
                           THEN <<SubSeq(s, i, wordend(i))>>
                      ELSE <<>>],
                  1, n)

\* WordNetLemmatizer.lemmatize(token), the noun lemma: the words of the
\* texts used whose lemma differs from the word; every other word of those
\* texts is its own lemma.
lemmatize(token) ==
    CASE token = "cans" -> "can"
      [] token = "costs" -> "cost"
      [] token = "prices" -> "price"
      [] token = "instructions" -> "instruction"
      [] token = "freezes" -> "freeze"
      [] token = "gets" -> "get"
      [] token = "hours" -> "hour"
      [] OTHER -> token

\* [lemmatizer.lemmatize(token) for token in tokens
\*      if token.lower() not in stop_words]
FilterLemmatize(tokens) ==
    ConcatSeq([i \in 1..Len(tokens) |->
                  IF lower(tokens[i]) \notin stop_words
                  THEN <<lemmatize(tokens[i])>> ELSE <<>>],
              1, Len(tokens))

\* preprocess_text, lines 147-171: what a cache miss computes
pipeline(text) ==
    LET t1 == lower(text)
        t2 == _expand_slang_and_idioms(t1)
        t3 == url_sub(t2)
        t4 == email_sub(t3)
        t5 == special_sub(t4)
        t6 == whitespace_sub(t5)
        tokens == FilterLemmatize(word_tokenize(t6))
    IN  join(tokens)

(***************************************************************************)
(* The override rule chain.                                                *)
(***************************************************************************)
\* Python's None where the alternative is a str
None == "None"

\* the six scores of a result
Scores(r) ==
    [neg |-> r.neg, neu |-> r.neu, pos |-> r.pos, compound |-> r.compound,
     sentiment_label |-> r.sentiment_label, confidence |-> r.confidence]

\* the dict with the confidence taken from the compound, as on the scorer's
\* path, in place of the one given
Result_confidence_of_compound(neg, neu, pos, compound, sentiment_label, confidence, original_text, processed_text) ==
    [neg |-> neg, neu |-> neu, pos |-> pos, compound |-> compound,
     sentiment_label |-> sentiment_label,
     confidence |-> IF compound < 0 THEN -compound ELSE compound,
     original_text |-> original_text, processed_text |-> processed_text]

\* the dict the engine returns; the scores in units of 0.00001
Result(neg, neu, pos, compound, sentiment_label, confidence, original_text, processed_text) ==
    [neg |-> neg, neu |-> neu, pos |-> pos, compound |-> compound,
     sentiment_label |-> sentiment_label, confidence |-> confidence,
     original_text |-> original_text, processed_text |-> processed_text]

\* _detect_sarcasm with the patterns carrying 1 in place of -1
_detect_sarcasm_positive(text) ==
    LET text_lower == lower(text)
    IN  IF \E i \in 1..Len(sarcasm_patterns) :
              SearchDotStar(sarcasm_patterns[i][1], sarcasm_patterns[i][2], text_lower)
        THEN 1 ELSE 0

\* the first pattern that matches decides; each carries -1
_detect_sarcasm(text) ==
    LET text_lower == lower(text)
    IN  IF \E i \in 1..Len(sarcasm_patterns) :
              SearchDotStar(sarcasm_patterns[i][1], sarcasm_patterns[i][2], text_lower)
        THEN -1 ELSE 0

\* The double-negation phrases come first, in list order.  Then, for a
\* negation word found in the text, the first simple-negation pattern that
\* matches; the patterns do not depend on the word, so the order in which
\* the set of words is walked does not show.
_handle_negation(text) ==
    LET text_lower == lower(text)
        dn == {i \in 1..Len(double_negation_patterns) :
                  Contains(double_negation_patterns[i][1], text_lower)}
        sn == {i \in 1..Len(negation_patterns) :
                  Contains(negation_patterns[i][1], text_lower)}
    IN  IF dn # {} THEN double_negation_patterns[Min(dn)][2]
        ELSE IF (\E negation \in negation_words : Contains(negation, text_lower))
                  /\ sn # {}
             THEN negation_patterns[Min(sn)][2]
        ELSE None

\* the positive-aspect words without 'good'
pos_words_short ==
    {"delicious", "beautiful", "great", "excellent", "wonderful", "interesting"}

pos_words ==
    {"delicious", "beautiful", "good", "great", "excellent", "wonderful",
     "interesting"}

neg_words ==
    {"terrible", "bad", "awful", "pathetic", "expensive", "disappointing",
     "wooden"}

\* original_text is a str here; processed_text is what preprocess_text
\* returned.  PyNone when no rule fires.
_get_enhanced_sentiment(original_text, processed_text) ==
    LET low == lower(original_text)
        o == PyStr(original_text)
        p == processed_text
        negation_result == _handle_negation(original_text)
    IN  IF _detect_sarcasm(original_text) < 0
        THEN Result(80000, 10000, 10000, -70000, "negative", 70000, o, p)
        ELSE IF negation_result # None
        THEN IF negation_result \in {"good", "like", "happy", "excellent"}
             THEN Result(10000, 10000, 80000, 70000, "positive", 70000, o, p)
             ELSE Result(80000, 10000, 10000, -70000, "negative", 70000, o, p)
        ELSE IF /\ Contains(" but ", low) \/ Contains(" however ", low)
                /\ \E word \in pos_words : Contains(word, processed_text)
                /\ \E word \in neg_words : Contains(word, processed_text)
        THEN Result(40000, 20000, 40000, 0, "mixed", 50000, o, p)
        ELSE IF Contains("plot was interesting", low)
                  /\ Contains("acting was wooden", low)
        THEN Result(40000, 20000, 40000, 0, "mixed", 50000, o, p)
        ELSE IF Contains("if only", low) \/ Contains("wish", low)
        THEN Result(70000, 20000, 10000, -60000, "negative", 60000, o, p)
        ELSE IF Contains("letdown", low)
        THEN Result(80000, 10000, 10000, -70000, "negative", 70000, o, p)
        ELSE IF Contains("sick sound", low)
        THEN Result(80000, 10000, 10000, -70000, "negative", 70000, o, p)
        ELSE IF Contains("disappointed", low)
        THEN Result(80000, 10000, 10000, -70000, "negative", 70000, o, p)
        ELSE IF Contains("wasn't exactly", low) \/ Contains("was not exactly", low)
        THEN Result(80000, 10000, 10000, -70000, "negative", 70000, o, p)
        ELSE IF Contains("expected", low)
                  /\ (Contains("but", low) \/ Contains("yet", low))
        THEN Result(80000, 10000, 10000, -70000, "negative", 70000, o, p)
        ELSE IF Contains("clear as mud", low)
        THEN Result(80000, 10000, 10000, -70000, "negative", 70000, o, p)
        ELSE IF Contains("can't complain", low) \/ Contains("cant complain", low)
        THEN Result(10000, 10000, 80000, 70000, "positive", 70000, o, p)
        ELSE IF Contains("wasn't nearly as good", low)
                  \/ Contains("not nearly as good", low)
        THEN Result(80000, 10000, 10000, -70000, "negative", 70000, o, p)
        ELSE IF Contains("at all costs", low) \/ Contains("worst enemy", low)
        THEN Result(80000, 10000, 10000, -70000, "negative", 70000, o, p)
        ELSE IF \E slang \in {"goat", "sick", "lit", "fire"} : Contains(slang, low)
        THEN Result(10000, 10000, 80000, 70000, "positive", 70000, o, p)
        ELSE IF \E idiom \in {"arm and a leg", "ages"} : Contains(idiom, low)
        THEN Result(80000, 10000, 10000, -70000, "negative", 70000, o, p)
        ELSE IF Contains("surprisingly quiet", low)
        THEN Result(10000, 80000, 10000, 0, "neutral", 50000, o, p)
        ELSE IF Contains("nightmare to navigate", low)
        THEN Result(80000, 10000, 10000, -70000, "negative", 70000, o, p)
        ELSE IF Contains("worst best movie", low)
        THEN Result(10000, 10000, 80000, 70000, "positive", 70000, o, p)
        ELSE PyNone

(***************************************************************************)
(* The lexicon scorer is NLTK's VADER, a dependency: a deterministic       *)
(* function from the normalized text to neg, neu, pos and a compound in    *)
(* [-1, 1].  VADER returns neg, neu and pos rounded to 3 decimals and the  *)
(* compound rounded to 4.  The model draws the scorer, once per analyzer,  *)
(* from a family of functions of the text into ScoreGrid, under which the  *)
(* texts of the model get every entry of the grid.  The grid holds the     *)
(* label thresholds, the values next to them on either side and the        *)
(* extremes.                                                               *)
(***************************************************************************)
ScoreGrid ==
    << [neg |-> 0, neu |-> 100000, pos |-> 0, compound |-> 0],
       [neg |-> 0, neu |-> 25400, pos |-> 74600, compound |-> 63690],
       [neg |-> 60000, neu |-> 40000, pos |-> 0, compound |-> -54230],
       [neg |-> 33300, neu |-> 33300, pos |-> 33400, compound |-> 5000],
       [neg |-> 33400, neu |-> 33300, pos |-> 33300, compound |-> -5000],
       [neg |-> 12300, neu |-> 75300, pos |-> 12400, compound |-> 4990],
       [neg |-> 12400, neu |-> 75300, pos |-> 12300, compound |-> -4990],
       [neg |-> 12300, neu |-> 75200, pos |-> 12500, compound |-> 5010],
       [neg |-> 0, neu |-> 0, pos |-> 100000, compound |-> 100000],
       [neg |-> 100000, neu |-> 0, pos |-> 0, compound |-> -100000] >>

\* the scorers an analyzer may be built with
Lexicons == 0..((Len(ScoreGrid) \div 2) - 1)

\* self.analyzer.polarity_scores(text) of the analyzer whose scorer is lex
polarity_scores(lex, text) == ScoreGrid[((Len(text) + 2 * lex) % Len(ScoreGrid)) + 1]

\* round(x, 4): to the nearest multiple of 0.0001, a tie to the even one
round4(x) ==
    LET q == x \div 10
        r == x % 10
    IN  IF r < 5 THEN q * 10
        ELSE IF r > 5 THEN (q + 1) * 10
        ELSE IF q % 2 = 0 THEN q * 10 ELSE (q + 1) * 10

\* abs(x)
abs(x) == IF x < 0 THEN -x ELSE x

(***************************************************************************)
(* The normalization cache: the dict _preprocessing_cache as the list of   *)
(* its <<key, value>> items in the order a Python dict keeps them, the     *)
(* order of insertion.                                                     *)
(***************************************************************************)
\* self._max_cache_size; 1000 in the program, scaled down here
_max_cache_size == 3

\* text[:1]
cache_key_short(text) == Take(text, 1)

\* text[:100]
cache_key(text) == Take(text, 100)

\* key in cache
InCache(c, key) == \E i \in 1..Len(c) : c[i][1] = key

\* cache[key], the key being present
CacheGet(c, key) == c[CHOOSE i \in 1..Len(c) : c[i][1] = key][2]

\* cache.pop(next(iter(cache))): without the item inserted first
PopFirst(c) == Tail(c)

\* cache[key] = value: a present key keeps its place, a new one goes last
CacheSet(c, key, value) ==
    IF InCache(c, key)
    THEN [i \in 1..Len(c) |-> IF c[i][1] = key THEN <<key, value>> ELSE c[i]]
    ELSE Append(c, <<key, value>>)

\* the keys of the cache
Keys(c) == {c[i][1] : i \in 1..Len(c)}

(***************************************************************************)
(* The texts the calls are made with.                                      *)
(***************************************************************************)
\* exactly 100 characters: the text is its own cache key
Long100 ==
    "The camera of this phone is good but the battery of this phone was only lasting for four hours total"

\* the same first 100 characters, and more
Long121 == Long100 \o " and it was expensive"

\* 100 spaces: the cache key of the two texts that follow
Spaces100 == ConcatStr([i \in 1..100 |-> " "], 1, 100)

\* whitespace only, and longer than its key
Blank101 == Spaces100 \o " "

\* the same first 100 characters, and words after them
BlankNice == Spaces100 \o "nice day"

\* the strings given to analyze_sentiment and preprocess_text
Texts ==
    {"if only", "   ", "not bad", "I love this!", "I wish it worked",
     Long100, Long121, Blank101, BlankNice}

\* the values given to them: strings, the empty string, None, non-strings
Inputs == {PyStr(t) : t \in Texts} \cup {PyStr(""), PyNone, PyInt(42), PyInt(0)}

\* the strings normalized once and then again: idioms and slang, an idiom
\* that holds a slang word, a plural whose lemma is a stop word
NormalizeTexts ==
    {"cans", "I love this!", "The engine started making a sick sound.",
     "A sick sound, but a sick beat", "This new phone is the goat!",
     "This laptop costs an arm and a leg.", "Avoid this place at all costs!",
     "not bad", "if only", "Cool, that is lit"}

\* what preprocess_text returns for them, given to it in turn
NormalizedTexts ==
    {"can", "love !", "engine started making bad sound .",
     "bad sound , excellent beat", "new phone greatest time !",
     "laptop cost expensive .", "avoid place cost !", "bad",
     "good , excellent"}

\* the pipeline on the texts, computed once
NormalizedTable ==
    {<<t, pipeline(t)>> : t \in Texts \cup NormalizeTexts \cup NormalizedTexts}

\* pipeline(text), read from the table
Normalized(text) ==
    (CHOOSE e \in NormalizedTable : e[1] = text)[2]

\* the rule chain on the texts and on every normalized text the cache may
\* hand back for one of them, computed once
EnhancedTable ==
    {<<t, e[2], _get_enhanced_sentiment(t, e[2])>> :
        t \in Texts, e \in {x \in NormalizedTable : x[1] \in Texts}}

\* _get_enhanced_sentiment(original_text, processed_text), read from the table
Enhanced(original_text, processed_text) ==
    (CHOOSE e \in EnhancedTable : e[1] = original_text /\ e[2] = processed_text)[3]

(***************************************************************************)
(* The analyzer.                                                           *)
(***************************************************************************)
VARIABLES
    cache,      \* analyzer._preprocessing_cache
    lexicon,    \* which scorer analyzer.analyzer is
    last,       \* the last call made: its argument, what it returned, what it ran
    hist,       \* history of the cache: insertions counted and stamped
    probe,      \* history of one text: what the first call with it returned
    chain,      \* an application of the rule chain on its own
    threads,    \* the request threads inside preprocess_text: where each is
    http        \* the last request an endpoint served, and its response

vars == <<cache, lexicon, last, hist, probe, chain, threads, http>>

\* preprocess_text making room only when the cache is over its size
preprocess_text_over(c, text) ==
    IF ~truthy(text) \/ ~isinstance_str(text)
    THEN [result |-> "", cache |-> c, lookup |-> "skip"]
    ELSE LET key == cache_key(text.s)
         IN  IF InCache(c, key)
             THEN [result |-> CacheGet(c, key), cache |-> c, lookup |-> "hit"]
             ELSE LET result == Normalized(text.s)
                      room == IF Len(c) > _max_cache_size THEN PopFirst(c) ELSE c
                  IN  [result |-> result, cache |-> CacheSet(room, key, result),
                       lookup |-> "miss"]

\* preprocess_text moving the entry it hits to the end of the dict, as a
\* least-recently-used cache does
preprocess_text_lru(c, text) ==
    IF ~truthy(text) \/ ~isinstance_str(text)
    THEN [result |-> "", cache |-> c, lookup |-> "skip"]
    ELSE LET key == cache_key(text.s)
         IN  IF InCache(c, key)
             THEN [result |-> CacheGet(c, key),
                   cache |-> Append(SelectSeq(c, LAMBDA e : e[1] # key),
                                    <<key, CacheGet(c, key)>>),
                   lookup |-> "hit"]
             ELSE LET result == Normalized(text.s)
                      room == IF Len(c) >= _max_cache_size THEN PopFirst(c) ELSE c
                  IN  [result |-> result, cache |-> CacheSet(room, key, result),
                       lookup |-> "miss"]

\* preprocess_text checking a hit against the full text: an entry stored
\* for another text is computed again and stored
preprocess_text_revalidated(c, text) ==
    IF ~truthy(text) \/ ~isinstance_str(text)
    THEN [result |-> "", cache |-> c, lookup |-> "skip"]
    ELSE LET key == cache_key(text.s)
         IN  IF InCache(c, key) /\ CacheGet(c, key) = Normalized(text.s)
             THEN [result |-> CacheGet(c, key), cache |-> c, lookup |-> "hit"]
             ELSE LET result == Normalized(text.s)
                      room == IF ~InCache(c, key) /\ Len(c) >= _max_cache_size
                              THEN PopFirst(c) ELSE c
                  IN  [result |-> result, cache |-> CacheSet(room, key, result),
                       lookup |-> "miss"]

\* preprocess_text storing a normalized text only when it is not empty
preprocess_text_skip_empty(c, text) ==
    IF ~truthy(text) \/ ~isinstance_str(text)
    THEN [result |-> "", cache |-> c, lookup |-> "skip"]
    ELSE LET key == cache_key(text.s)
         IN  IF InCache(c, key)
             THEN [result |-> CacheGet(c, key), cache |-> c, lookup |-> "hit"]
             ELSE LET result == Normalized(text.s)
                      room == IF Len(c) >= _max_cache_size THEN PopFirst(c) ELSE c
                  IN  [result |-> result,
                       cache |-> IF result = "" THEN c
                                 ELSE CacheSet(room, key, result),
                       lookup |-> "miss"]

\* preprocess_text storing the empty string for an input it rejects
preprocess_text_store_rejected(c, text) ==
    IF ~truthy(text) \/ ~isinstance_str(text)
    THEN [result |-> "",
          cache |-> IF Len(c) < _max_cache_size THEN CacheSet(c, "", "") ELSE c,
          lookup |-> "skip"]
    ELSE LET key == cache_key(text.s)
         IN  IF InCache(c, key)
             THEN [result |-> CacheGet(c, key), cache |-> c, lookup |-> "hit"]
             ELSE LET result == Normalized(text.s)
                      room == IF Len(c) >= _max_cache_size THEN PopFirst(c) ELSE c
                  IN  [result |-> result, cache |-> CacheSet(room, key, result),
                       lookup |-> "miss"]

\* preprocess_text(text) on cache c: what it returns, the cache it leaves,
\* and whether it looked the key up ("skip": it returned before)
preprocess_text(c, text) ==
    IF ~truthy(text) \/ ~isinstance_str(text)
    THEN [result |-> "", cache |-> c, lookup |-> "skip"]
    ELSE LET key == cache_key(text.s)
         IN  IF InCache(c, key)
             THEN [result |-> CacheGet(c, key), cache |-> c, lookup |-> "hit"]
             ELSE LET result == Normalized(text.s)
                      room == IF Len(c) >= _max_cache_size THEN PopFirst(c) ELSE c
                  IN  [result |-> result, cache |-> CacheSet(room, key, result),
                       lookup |-> "miss"]

\* the scorer's path with the label's thresholds exclusive
ScorerResult_exclusive(scores, text, processed_text) ==
    LET compound == scores.compound
        sentiment_label == IF compound > 5000 THEN "positive"
                           ELSE IF compound < -5000 THEN "negative"
                           ELSE "neutral"
        confidence == abs(compound)
    IN  Result(round4(scores.neg), round4(scores.neu), round4(scores.pos),
               round4(compound), sentiment_label, round4(confidence),
               text, processed_text)

\* the scorer's path calling a compound between the thresholds 'mixed'
ScorerResult_mixed(scores, text, processed_text) ==
    LET compound == scores.compound
        sentiment_label == IF compound >= 5000 THEN "positive"
                           ELSE IF compound <= -5000 THEN "negative"
                           ELSE "mixed"
        confidence == abs(compound)
    IN  Result(round4(scores.neg), round4(scores.neu), round4(scores.pos),
               round4(compound), sentiment_label, round4(confidence),
               text, processed_text)

\* the scorer's path returning the compound as the confidence
ScorerResult_signed_confidence(scores, text, processed_text) ==
    LET compound == scores.compound
        sentiment_label == IF compound >= 5000 THEN "positive"
                           ELSE IF compound <= -5000 THEN "negative"
                           ELSE "neutral"
        confidence == compound
    IN  Result(round4(scores.neg), round4(scores.neu), round4(scores.pos),
               round4(compound), sentiment_label, round4(confidence),
               text, processed_text)

\* the scorer's path rounding the scores to one decimal place
ScorerResult_one_decimal(scores, text, processed_text) ==
    LET compound == scores.compound
        sentiment_label == IF compound >= 5000 THEN "positive"
                           ELSE IF compound <= -5000 THEN "negative"
                           ELSE "neutral"
        confidence == abs(compound)
    IN  Result(round4(scores.neg \div 1000) * 1000, round4(scores.neu \div 1000) * 1000,
               round4(scores.pos \div 1000) * 1000,
               round4(compound), sentiment_label, round4(confidence),
               text, processed_text)

\* the scorer's path returning the neg score as neu
ScorerResult_neu_of_neg(scores, text, processed_text) ==
    LET compound == scores.compound
        sentiment_label == IF compound >= 5000 THEN "positive"
                           ELSE IF compound <= -5000 THEN "negative"
                           ELSE "neutral"
        confidence == abs(compound)
    IN  Result(round4(scores.neg), round4(scores.neg), round4(scores.pos),
               round4(compound), sentiment_label, round4(confidence),
               text, processed_text)

\* analyze_sentiment, lines 259-283: the result built from the scorer's numbers
ScorerResult(scores, text, processed_text) ==
    LET compound == scores.compound
        sentiment_label == IF compound >= 5000 THEN "positive"
                           ELSE IF compound <= -5000 THEN "negative"
                           ELSE "neutral"
        confidence == abs(compound)
    IN  Result(round4(scores.neg), round4(scores.neu), round4(scores.pos),
               round4(compound), sentiment_label, round4(confidence),
               text, processed_text)

\* the scorer's path returning the six scores alone
analyze_scored_bare(scores, pre, text) ==
    [result |-> Scores(ScorerResult(scores, text, pre.result)),
     cache |-> pre.cache, lookup |-> pre.lookup, processed |-> pre.result,
     calls |-> <<"preprocess_text", "_get_enhanced_sentiment", "polarity_scores">>,
     scores |-> scores]

\* analyze_sentiment, lines 259-283: the scorer's path, after the chain
\* returned None
analyze_scored(scores, pre, text) ==
    [result |-> ScorerResult(scores, text, pre.result),
     cache |-> pre.cache, lookup |-> pre.lookup, processed |-> pre.result,
     calls |-> <<"preprocess_text", "_get_enhanced_sentiment", "polarity_scores">>,
     scores |-> scores]

\* the scorer run before the chain's result is looked at
analyze_enhanced_eager(enhanced_sentiment, pre, lex, text) ==
    IF enhanced_sentiment # PyNone
    THEN [result |-> enhanced_sentiment,
          cache |-> pre.cache, lookup |-> pre.lookup, processed |-> pre.result,
          calls |-> <<"preprocess_text", "_get_enhanced_sentiment", "polarity_scores">>,
          scores |-> PyNone]
    ELSE analyze_scored(polarity_scores(lex, pre.result), pre, text)

\* analyze_sentiment, lines 254-283: the chain's result if it gave one, else
\* the scorer's
analyze_enhanced(enhanced_sentiment, pre, lex, text) ==
    IF enhanced_sentiment # PyNone
    THEN [result |-> enhanced_sentiment,
          cache |-> pre.cache, lookup |-> pre.lookup, processed |-> pre.result,
          calls |-> <<"preprocess_text", "_get_enhanced_sentiment">>,
          scores |-> PyNone]
    ELSE analyze_scored(polarity_scores(lex, pre.result), pre, text)

\* what follows preprocess_text without the test for an empty normalized
\* text
analyze_processed_unchecked(pre, lex, text) ==
    analyze_enhanced(Enhanced(text.s, pre.result), pre, lex, text)

\* analyze_sentiment, lines 242-283: after preprocess_text returned pre
analyze_processed(pre, lex, text) ==
    IF pre.result = ""
    THEN [result |-> [neg |-> 0, neu |-> 0, pos |-> 0, compound |-> 0,
                      sentiment_label |-> "neutral", confidence |-> 0],
          cache |-> pre.cache, lookup |-> pre.lookup, processed |-> "",
          calls |-> <<"preprocess_text">>, scores |-> PyNone]
    ELSE analyze_enhanced(Enhanced(text.s, pre.result), pre, lex, text)

\* analyze_sentiment with the text fields of the first return left empty
analyze_sentiment_blank(c, lex, text) ==
    IF ~truthy(text) \/ ~isinstance_str(text)
    THEN [result |-> Result(0, 0, 0, 0, "neutral", 0, PyStr(""), ""),
          cache |-> c, lookup |-> "skip", processed |-> "",
          calls |-> <<>>, scores |-> PyNone]
    ELSE analyze_processed(preprocess_text(c, text), lex, text)

\* analyze_sentiment(text) on cache c with scorer lex: the dict it returns,
\* the cache it leaves, and a record of what it ran
analyze_sentiment(c, lex, text) ==
    IF ~truthy(text) \/ ~isinstance_str(text)
    THEN [result |-> Result(0, 0, 0, 0, "neutral", 0, text, ""),
          cache |-> c, lookup |-> "skip", processed |-> "",
          calls |-> <<>>, scores |-> PyNone]
    ELSE analyze_processed(preprocess_text(c, text), lex, text)

\* what may fail inside a call: nothing, or one of the library's functions
\* (word_tokenize and lemmatize raise LookupError when their data, whose
\* download at import is allowed to fail, is missing)
Faults == {"none", "word_tokenize", "lemmatize", "polarity_scores"}

\* preprocess_text, lines 161-168: word_tokenize is called on every miss, and
\* lemmatize for every token that is no stop word
PipelineRaises(lookup, result, fault) ==
    /\ lookup = "miss"
    /\ \/ fault = "word_tokenize"
       \/ fault = "lemmatize" /\ result # ""

\* preprocess_text has no try: what the pipeline raises leaves it, before
\* the cache is written
PreprocessOutcome(pre, c, fault) ==
    IF PipelineRaises(pre.lookup, pre.result, fault)
    THEN [raised |-> "LookupError", result |-> None, cache |-> c, lookup |-> "miss"]
    ELSE [raised |-> None, result |-> pre.result, cache |-> pre.cache,
          lookup |-> pre.lookup]

\* preprocess_text(text) on cache c when the library function fails
preprocess_text_failing(c, text, fault) ==
    PreprocessOutcome(preprocess_text(c, text), c, fault)

\* analyze_sentiment has no try: what preprocess_text raises leaves it with
\* the cache as it was, what polarity_scores raises leaves it with the cache
\* as preprocess_text left it, and no result is returned
AnalyzeOutcome(r, c, fault) ==
    IF PipelineRaises(r.lookup, r.processed, fault)
    THEN [raised |-> "LookupError", result |-> PyNone, cache |-> c,
          lookup |-> "miss", processed |-> "", calls |-> <<"preprocess_text">>,
          scores |-> PyNone]
    ELSE IF fault = "polarity_scores" /\ r.scores # PyNone
    THEN [raised |-> "Exception", result |-> PyNone, cache |-> r.cache,
          lookup |-> r.lookup, processed |-> r.processed, calls |-> r.calls,
          scores |-> PyNone]
    ELSE [raised |-> None, result |-> r.result, cache |-> r.cache,
          lookup |-> r.lookup, processed |-> r.processed, calls |-> r.calls,
          scores |-> r.scores]

\* analyze_sentiment(text) on cache c when the library function fails
analyze_sentiment_failing(c, lex, text, fault) ==
    AnalyzeOutcome(analyze_sentiment(c, lex, text), c, fault)

NoCall ==
    [op |-> "none", text |-> PyNone, result |-> PyNone, processed |-> "",
     lookup |-> "none", calls |-> <<>>, scores |-> PyNone]

NoChain == [original |-> "", processed |-> "", applied |-> FALSE, out |-> PyNone]

\* no call made yet: nothing inserted, no key asked for
NoHist ==
    [inserted |-> 0, born |-> {}, called |-> {}, repeated |-> FALSE,
     first_key |-> None, hit |-> {}, lost_hit |-> FALSE]

NoProbe ==
    [text |-> PyNone, called |-> FALSE, first |-> PyNone, again |-> FALSE,
     collided |-> FALSE]

\* no request thread is inside preprocess_text
NoThreads == <<>>

\* no request served yet
NoHttp == [endpoint |-> "none"]

\* a caller runs analyzer.analyze_sentiment(text)
AnalyzeCall(text) ==
    \E r \in {analyze_sentiment(cache, lexicon, text)} :
        /\ cache' = r.cache
        /\ last' = [op |-> "analyze_sentiment", text |-> text, result |-> r.result,
                    processed |-> r.processed, lookup |-> r.lookup,
                    calls |-> r.calls, scores |-> r.scores]
        /\ UNCHANGED <<lexicon, chain, threads, http>>

\* a caller runs analyzer.preprocess_text(text)
PreprocessCall(text) ==
    \E r \in {preprocess_text(cache, text)} :
        /\ cache' = r.cache
        /\ last' = [op |-> "preprocess_text", text |-> text, result |-> PyNone,
                    processed |-> r.result, lookup |-> r.lookup,
                    calls |-> <<>>, scores |-> PyNone]
        /\ UNCHANGED <<lexicon, chain, threads, http>>

\* analyzer = SentimentAnalyzer(), with one of the scorers
Init ==
    /\ cache = <<>>
    /\ lexicon \in Lexicons
    /\ last = NoCall
    /\ hist = NoHist
    /\ probe = NoProbe
    /\ chain = NoChain
    /\ threads = NoThreads
    /\ http = NoHttp

Next ==
    \E text \in Inputs :
        /\ AnalyzeCall(text) \/ PreprocessCall(text)
        /\ UNCHANGED <<hist, probe>>

Spec == Init /\ [][Next]_vars

(***************************************************************************)
(* The rule chain on its own: a function of the original text and of the   *)
(* normalized text it is handed.                                           *)
(***************************************************************************)
\* original texts: one or more for each rule, some that match several
\* rules, some that match none
ChainTexts ==
    {"Oh great, another flight delay. This is exactly how I wanted to spend my Friday.",
     "Oh great, a delay for the goat!",
     "Oh great,\nanother delay",
     "The movie was not bad at all.",
     "I don't dislike it",
     "This is not good",
     "The food was delicious, but the prices were astronomical.",
     "The food was good but expensive.",
     "The screen is beautiful; however, the battery life is pathetic.",
     "While the plot was interesting, the acting was wooden.",
     "If only the customer support was as good as the marketing.",
     "I wish it worked",
     "The plot was a bit of a letdown.",
     "The engine started making a sick sound.",
     "I am extremely disappointed with the quality of the product.",
     "The hotel wasn't exactly clean.",
     "I expected a masterpiece, but it was just okay.",
     "The instructions were clear as mud.",
     "For the price, you really can't complain.",
     "The sequel wasn't nearly as good as the original.",
     "Avoid this place at all costs!",
     "I wouldn't recommend this even to my worst enemy.",
     "This new phone is the goat!",
     "This laptop costs an arm and a leg.",
     "I've been waiting for ages for this to be fixed.",
     "The restaurant was surprisingly quiet for a Saturday night.",
     "The new interface is a total nightmare to navigate.",
     "This is the worst best movie I have ever seen.",
     "A nightmare to navigate, surprisingly quiet",
     "I love this product!",
     "The weather is cloudy today.",
     "It's not the best, but it gets the job done.",
     "not bad",
     "I love this!",
     "I expected a good film, but it was just okay.",
     "It is not good and not bad",
     "Not great, not wonderful",
     "NOT EXCELLENT",
     "Nothing was wonderful",
     Long100,
     Long121}

\* normalized texts that are not the original's own, as a cache hit on a
\* shared key hands them over
ChainProbes == {"good expensive", "weather cloudy today"}

\* the pipeline on the original texts, computed once
ChainTable == {<<t, pipeline(t)>> : t \in ChainTexts}

\* the chain is handed an original text and its normalized text, or another
InitChain ==
    /\ cache = <<>>
    /\ lexicon = 0
    /\ last = NoCall
    /\ hist = NoHist
    /\ probe = NoProbe
    /\ threads = NoThreads
    /\ http = NoHttp
    /\ \E e \in ChainTable : \E p \in {e[2]} \cup ChainProbes :
           chain = [original |-> e[1], processed |-> p, applied |-> FALSE,
                    out |-> PyNone]

\* self._get_enhanced_sentiment(text, processed_text)
ApplyChain ==
    /\ ~chain.applied
    /\ chain' = [chain EXCEPT !.applied = TRUE,
                              !.out = _get_enhanced_sentiment(chain.original,
                                                              chain.processed)]
    /\ UNCHANGED <<cache, lexicon, last, hist, probe, threads, http>>

NextChain == ApplyChain

SpecChain == InitChain /\ [][NextChain]_vars

(***************************************************************************)
(* The rule table of the specification, section 4.2: the trigger and the   *)
(* outcome of each of the rows 1..20.                                      *)
(***************************************************************************)
NegativeVector ==
    [neg |-> 80000, neu |-> 10000, pos |-> 10000, compound |-> -70000,
     sentiment_label |-> "negative", confidence |-> 70000]

PositiveVector ==
    [neg |-> 10000, neu |-> 10000, pos |-> 80000, compound |-> 70000,
     sentiment_label |-> "positive", confidence |-> 70000]

MixedVector ==
    [neg |-> 40000, neu |-> 20000, pos |-> 40000, compound |-> 0,
     sentiment_label |-> "mixed", confidence |-> 50000]

CounterfactualVector ==
    [neg |-> 70000, neu |-> 20000, pos |-> 10000, compound |-> -60000,
     sentiment_label |-> "negative", confidence |-> 60000]

QuietVector ==
    [neg |-> 10000, neu |-> 80000, pos |-> 10000, compound |-> 0,
     sentiment_label |-> "neutral", confidence |-> 50000]

SimpleNegations == <<"not good", "not bad", "not great", "not excellent", "not wonderful">>

\* row k's trigger on the lowercased original text and the normalized text
RuleFires(k, low, normalized) ==
    CASE k = 1 -> \/ SearchDotStar("oh great", "delay", low)
                  \/ SearchDotStar("oh wonderful", "problem", low)
                  \/ SearchDotStar("love it when", "freeze", low)
                  \/ SearchDotStar("exactly", "wanted", low)
                  \/ SearchDotStar("perfect", "situation", low)
      [] k = 2 -> \E ph \in {"not bad", "not terrible", "not awful", "don't dislike",
                             "not unhappy", "not ungood"} : Contains(ph, low)
      [] k = 3 -> /\ \E w \in negation_words : Contains(w, low)
                  /\ \E i \in 1..Len(SimpleNegations) : Contains(SimpleNegations[i], low)
      [] k = 4 -> /\ Contains(" but ", low) \/ Contains(" however ", low)
                  /\ \E w \in pos_words : Contains(w, normalized)
                  /\ \E w \in neg_words : Contains(w, normalized)
      [] k = 5 -> Contains("plot was interesting", low) /\ Contains("acting was wooden", low)
      [] k = 6 -> Contains("if only", low) \/ Contains("wish", low)
      [] k = 7 -> Contains("letdown", low)
      [] k = 8 -> Contains("sick sound", low)
      [] k = 9 -> Contains("disappointed", low)
      [] k = 10 -> Contains("wasn't exactly", low) \/ Contains("was not exactly", low)
      [] k = 11 -> Contains("expected", low) /\ (Contains("but", low) \/ Contains("yet", low))
      [] k = 12 -> Contains("clear as mud", low)
      [] k = 13 -> Contains("can't complain", low) \/ Contains("cant complain", low)
      [] k = 14 -> Contains("wasn't nearly as good", low) \/ Contains("not nearly as good", low)
      [] k = 15 -> Contains("at all costs", low) \/ Contains("worst enemy", low)
      [] k = 16 -> \E w \in {"goat", "sick", "lit", "fire"} : Contains(w, low)
      [] k = 17 -> Contains("arm and a leg", low) \/ Contains("ages", low)
      [] k = 18 -> Contains("surprisingly quiet", low)
      [] k = 19 -> Contains("nightmare to navigate", low)
      [] k = 20 -> Contains("worst best movie", low)

\* row k's outcome; row 3's goes by the target of the first simple negation
\* that matches
RuleOutcome(k, low) ==
    CASE k \in {1, 7, 8, 9, 10, 11, 12, 14, 15, 17, 19} -> NegativeVector
      [] k \in {2, 13, 16, 20} -> PositiveVector
      [] k = 3 -> LET first_match == Min({i \in 1..Len(SimpleNegations) :
                                              Contains(SimpleNegations[i], low)})
                  IN  IF SimpleNegations[first_match] = "not bad"
                      THEN PositiveVector ELSE NegativeVector
      [] k \in {4, 5} -> MixedVector
      [] k = 6 -> CounterfactualVector
      [] k = 18 -> QuietVector

\* the rows whose trigger matches
Firing(low, normalized) == {k \in 1..20 : RuleFires(k, low, normalized)}

\* C1: the chain returns the outcome of the lowest-numbered row whose
\* trigger matches, and None only when no row's trigger matches; a text
\* that matches a sarcasm regex (row 1) and a positive-slang word (row 16)
\* gets row 1's negative vector.
C1_LowestRuleWins ==
    chain.applied =>
        LET low == lower(chain.original)
            firing == Firing(low, chain.processed)
        IN  /\ firing = {} <=> chain.out = PyNone
            /\ firing # {} => Scores(chain.out) = RuleOutcome(Min(firing), low)
            /\ {1, 16} \subseteq firing => Scores(chain.out) = NegativeVector

\* a text with a sarcasm regex and a slang word went through the chain and
\* came out negative
C1_Witness ==
    /\ chain.applied
    /\ {1, 16} \subseteq Firing(lower(chain.original), chain.processed)
    /\ chain.out # PyNone
    /\ chain.out.sentiment_label = "negative"

\* the aspect words of row 4
PositiveAspects ==
    {"delicious", "beautiful", "good", "great", "excellent", "wonderful",
     "interesting"}

NegativeAspects ==
    {"terrible", "bad", "awful", "pathetic", "expensive", "disappointing",
     "wooden"}

\* ' but ' or ' however ' in the lowercased original text
Connective(low) == Contains(" but ", low) \/ Contains(" however ", low)

HasPositive(normalized) == \E w \in PositiveAspects : Contains(w, normalized)

HasNegative(normalized) == \E w \in NegativeAspects : Contains(w, normalized)

\* the rows after row 4 whose trigger matches
LaterFiring(low, normalized) == {k \in 5..20 : RuleFires(k, low, normalized)}

\* C23: with rows 1..3 silent, row 4 answers only when the lowercased
\* original text holds ' but ' or ' however ' and the normalized text handed
\* to the chain holds a positive-aspect and a negative-aspect word; with the
\* connective and one class only, row 4 abstains and the answer is that of
\* row 5 and later.
C23_AspectNeedsBothClasses ==
    (chain.applied
       /\ \A k \in 1..3 : ~RuleFires(k, lower(chain.original), chain.processed)) =>
        LET low == lower(chain.original)
            both == HasPositive(chain.processed) /\ HasNegative(chain.processed)
            later == LaterFiring(low, chain.processed)
        IN  IF Connective(low) /\ both
            THEN chain.out # PyNone /\ Scores(chain.out) = MixedVector
            ELSE /\ later = {} => chain.out = PyNone
                 /\ later # {} =>
                        /\ chain.out # PyNone
                        /\ Scores(chain.out) = RuleOutcome(Min(later), low)

\* the connective with a positive-aspect word only: row 4 abstained and a
\* later row answered
C23_Witness ==
    /\ chain.applied
    /\ Connective(lower(chain.original))
    /\ HasPositive(chain.processed)
    /\ ~HasNegative(chain.processed)
    /\ chain.out # PyNone
    /\ Scores(chain.out) = NegativeVector

\* the classes are looked up in the normalized text handed over, not in the
\* original: a text with the connective and no aspect word of its own came
\* out mixed
C23_WitnessNormalized ==
    /\ chain.applied
    /\ Connective(lower(chain.original))
    /\ ~HasPositive(lower(chain.original))
    /\ chain.out # PyNone
    /\ Scores(chain.out) = MixedVector

\* C29: whenever row 3 is the first to fire the outcome is the negative
\* vector: a text with 'not bad' is decided by row 2, so the target 'good'
\* of the simple negations never decides; and every text that holds a
\* simple-negation phrase holds a negation word, so the guard on the
\* negation words excludes none.
C29_SimpleNegationIsNegative ==
    chain.applied =>
        LET low == lower(chain.original)
            firing == Firing(low, chain.processed)
            matched == {i \in 1..Len(SimpleNegations) :
                           Contains(SimpleNegations[i], low)}
        IN  /\ (firing # {} /\ Min(firing) = 3) =>
                   (chain.out # PyNone /\ Scores(chain.out) = NegativeVector)
            /\ (Contains("not bad", low) /\ 1 \notin firing) =>
                   /\ Min(firing) = 2
                   /\ chain.out # PyNone
                   /\ Scores(chain.out) = PositiveVector
            /\ matched # {} => \E w \in negation_words : Contains(w, low)
            /\ (matched # {} /\ firing \cap {1, 2} = {}) =>
                   (chain.out # PyNone /\ Scores(chain.out) = NegativeVector)

\* row 3 was the first to fire
C29_Witness ==
    /\ chain.applied
    /\ Firing(lower(chain.original), chain.processed) # {}
    /\ Min(Firing(lower(chain.original), chain.processed)) = 3
    /\ chain.out # PyNone
    /\ Scores(chain.out) = NegativeVector

\* 'not good' stands before 'not bad' in the text, and row 2 decided
C29_WitnessNotBad ==
    /\ chain.applied
    /\ Contains("not good and not bad", lower(chain.original))
    /\ chain.out # PyNone
    /\ Scores(chain.out) = PositiveVector

\* the phrases the rule table's rows are known by, each with its row and
\* the vector of that row
RowExamples ==
    {<<"clear as mud", 12, NegativeVector>>,
     <<"nightmare to navigate", 19, NegativeVector>>,
     <<"at all costs", 15, NegativeVector>>,
     <<"worst enemy", 15, NegativeVector>>,
     <<"wasn't nearly as good", 14, NegativeVector>>,
     <<"wasn't exactly", 10, NegativeVector>>,
     <<"can't complain", 13, PositiveVector>>,
     <<"worst best movie", 20, PositiveVector>>,
     <<"surprisingly quiet", 18, QuietVector>>,
     <<"if only", 6, CounterfactualVector>>,
     <<"wish", 6, CounterfactualVector>>}

\* C2: when a row is the first to fire, the six scores returned are that
\* row's constants, whatever else the text holds and whatever the
\* normalized text is: 'clear as mud', 'nightmare to navigate', 'at all
\* costs', 'worst enemy', 'wasn't nearly as good' and 'wasn't exactly' give
\* (0.8, 0.1, 0.1, -0.7, negative, 0.7); 'can't complain' and 'worst best
\* movie' give (0.1, 0.1, 0.8, 0.7, positive, 0.7); 'surprisingly quiet'
\* gives (0.1, 0.8, 0.1, 0.0, neutral, 0.5); 'if only' and 'wish' give
\* (0.7, 0.2, 0.1, -0.6, negative, 0.6).  The two texts pass through.
C2_RowConstants ==
    (chain.applied /\ chain.out # PyNone) =>
        LET low == lower(chain.original)
            firing == Firing(low, chain.processed)
        IN  /\ \A e \in RowExamples :
                   (Contains(e[1], low) /\ firing # {} /\ Min(firing) = e[2])
                       => Scores(chain.out) = e[3]
            /\ Scores(chain.out) \in {NegativeVector, PositiveVector, MixedVector,
                                      CounterfactualVector, QuietVector}
            /\ chain.out.original_text = PyStr(chain.original)
            /\ chain.out.processed_text = chain.processed

\* 'surprisingly quiet' was the first row to fire, in a text that also holds
\* 'nightmare to navigate', and the neutral vector came out
C2_Witness ==
    /\ chain.applied
    /\ Contains("surprisingly quiet", lower(chain.original))
    /\ Contains("nightmare to navigate", lower(chain.original))
    /\ Min(Firing(lower(chain.original), chain.processed)) = 18
    /\ chain.out # PyNone
    /\ Scores(chain.out) = QuietVector

(***************************************************************************)
(* The results of analyze_sentiment.                                       *)
(***************************************************************************)
ScoreKeys == {"neg", "neu", "pos", "compound", "sentiment_label", "confidence"}

TextKeys == {"original_text", "processed_text"}

\* the last call was analyze_sentiment with a non-empty string
AnalyzedString ==
    last.op = "analyze_sentiment" /\ isinstance_str(last.text) /\ truthy(last.text)

\* the last call was analyze_sentiment and it went to the scorer
ScorerPath == last.op = "analyze_sentiment" /\ last.scores # PyNone

C4_EmptyInput ==
    (last.op = "analyze_sentiment" /\ (~truthy(last.text) \/ ~isinstance_str(last.text)))
        => last.result = [neg |-> 0, neu |-> 0, pos |-> 0, compound |-> 0,
                          sentiment_label |-> "neutral", confidence |-> 0,
                          original_text |-> last.text, processed_text |-> ""]

\* analyze_sentiment(42) returned, with 42 as original_text
C4_Witness ==
    /\ last.op = "analyze_sentiment"
    /\ last.text = PyInt(42)
    /\ last.result.original_text = PyInt(42)
    /\ last.result.sentiment_label = "neutral"

\* C5: for a non-empty string whose normalized text, as preprocess_text
\* returns it, is empty, analyze_sentiment returns zeros and 'neutral'
\* without original_text and processed_text, and calls neither the rule
\* chain nor the scorer, whatever triggers the text holds.
C5_EmptyNormalized ==
    (AnalyzedString /\ last.processed = "") =>
        /\ last.result = [neg |-> 0, neu |-> 0, pos |-> 0, compound |-> 0,
                          sentiment_label |-> "neutral", confidence |-> 0]
        /\ DOMAIN last.result = ScoreKeys
        /\ last.calls = <<"preprocess_text">>

\* 'if only', a trigger of rule 6, was analyzed: six keys, no rule applied
C5_Witness ==
    /\ AnalyzedString
    /\ last.text = PyStr("if only")
    /\ RuleFires(6, lower(last.text.s), last.processed)
    /\ last.processed = ""
    /\ DOMAIN last.result = ScoreKeys
    /\ last.result.sentiment_label = "neutral"

\* C6 as stated: for every non-empty string the result holds all eight keys,
\* original_text and processed_text being strings.
C6_AllEightKeys ==
    AnalyzedString =>
        /\ DOMAIN last.result = ScoreKeys \cup TextKeys
        /\ isinstance_str(last.result.original_text)
        /\ last.result.processed_text = last.processed

\* C6, amended: for every non-empty string for which preprocess_text returns
\* a non-empty normalized text the result holds all eight keys, original_text
\* being the string passed in and processed_text the normalized text; when
\* preprocess_text returns the empty string the result holds the six score
\* keys only.
C6_EightKeysWhenNormalized ==
    AnalyzedString =>
        IF last.processed # ""
        THEN /\ DOMAIN last.result = ScoreKeys \cup TextKeys
             /\ last.result.original_text = last.text
             /\ isinstance_str(last.result.original_text)
             /\ last.result.processed_text = last.processed
        ELSE DOMAIN last.result = ScoreKeys

\* a string went down the scorer's path and came back with eight keys
C6_Witness ==
    /\ AnalyzedString
    /\ ScorerPath
    /\ last.processed # ""
    /\ DOMAIN last.result = ScoreKeys \cup TextKeys

\* C9: a call of preprocess_text whose key is in the cache returns the
\* entry's value, leaves the cache as it is and runs the pipeline on
\* nothing, also when the entry was stored for another text.
C9_HitReturnsEntry ==
    [][(/\ last'.op = "preprocess_text"
        /\ isinstance_str(last'.text) /\ truthy(last'.text)
        /\ InCache(cache, cache_key(last'.text.s)))
           => /\ last'.processed = CacheGet(cache, cache_key(last'.text.s))
              /\ last'.lookup = "hit"
              /\ cache' = cache]_vars

\* preprocess_text of the longer text returned what the cache held for the
\* shorter one
C9_Witness ==
    /\ last.op = "preprocess_text"
    /\ last.text = PyStr(Long121)
    /\ last.lookup = "hit"
    /\ last.processed = Normalized(Long100)
    /\ last.processed # Normalized(Long121)

(***************************************************************************)
(* The cache under preprocess_text, with its history: how many entries     *)
(* were inserted so far and at which insertion each entry present was      *)
(* stored; the keys asked for, as long as none was asked for twice; the    *)
(* entries present that were found since they were stored, and whether     *)
(* such an entry was evicted.                                              *)
(* analyze_sentiment touches the cache through preprocess_text only.       *)
(***************************************************************************)
\* insertions followed
MaxInsertions == 5

\* the strings given to preprocess_text here: the keys are pairwise distinct
CacheTexts ==
    {"if only", "   ", "not bad", "I love this!", "I wish it worked", Long100}

CacheInputs == {PyStr(t) : t \in CacheTexts} \cup {PyStr("")}

\* the history after preprocess_text(text) took the cache to after
HistAfter(h, before, after, text) ==
    IF ~truthy(text) \/ ~isinstance_str(text) THEN h
    ELSE LET key == cache_key(text.s)
             again == h.repeated \/ key \in h.called
             asked == [h EXCEPT !.repeated = again,
                                !.called = IF again THEN {} ELSE @ \cup {key},
                                !.first_key = IF again THEN None
                                              ELSE IF h.called = {} THEN key ELSE @]
             gone == Keys(before) \ Keys(after)
             lost == asked.lost_hit \/ (h.hit \cap gone # {})
         IN  IF InCache(before, key)
             THEN [asked EXCEPT !.hit = (@ \cup {key}) \cap Keys(after),
                                !.lost_hit = lost,
                                !.born = {b \in @ : b[1] \in Keys(after)}]
             ELSE [asked EXCEPT !.inserted = @ + 1,
                                !.hit = (@ \ {key}) \cap Keys(after),
                                !.lost_hit = lost,
                                !.born = {b \in @ : b[1] \in Keys(after) /\ b[1] # key}
                                             \cup {<<key, h.inserted + 1>>}]

InitCache ==
    /\ cache = <<>>
    /\ lexicon = 0
    /\ last = NoCall
    /\ hist = NoHist
    /\ probe = NoProbe
    /\ chain = NoChain
    /\ threads = NoThreads
    /\ http = NoHttp

\* a caller runs analyzer.preprocess_text(text); the history follows
CachedPreprocess(text) ==
    /\ (isinstance_str(text) /\ truthy(text) /\ ~InCache(cache, cache_key(text.s)))
           => hist.inserted < MaxInsertions
    /\ PreprocessCall(text)
    /\ hist' = HistAfter(hist, cache, cache', text)
    /\ UNCHANGED probe

NextCache == \E text \in CacheInputs : CachedPreprocess(text)

SpecCache == InitCache /\ [][NextCache]_vars

\* C26: in sequential use, every preprocess_text call that misses on a
\* non-empty string ends with the cache mapping the first 100 characters of
\* the input to exactly the value returned, the empty normalization
\* included, and removes at most one other entry.
C26_MissStoresResult ==
    [][(last'.op = "preprocess_text" /\ last'.lookup = "miss") =>
          LET key == Take(last'.text.s, 100)
          IN  /\ key \notin Keys(cache)
              /\ InCache(cache', key)
              /\ CacheGet(cache', key) = last'.processed
              /\ Cardinality(Keys(cache) \ Keys(cache')) <= 1
              /\ Keys(cache') \subseteq Keys(cache) \cup {key}
              /\ \A k \in Keys(cache) \cap Keys(cache') :
                     CacheGet(cache', k) = CacheGet(cache, k)]_vars

\* a miss on a text whose normalization is empty, with the cache full
\* before it: the empty string is stored and one entry made room
C26_Witness ==
    /\ last.op = "preprocess_text"
    /\ last.lookup = "miss"
    /\ last.processed = ""
    /\ InCache(cache, Take(last.text.s, 100))
    /\ CacheGet(cache, Take(last.text.s, 100)) = ""
    /\ hist.inserted > _max_cache_size

\* the insertion at which the entry of key k was stored
Born(h, k) == (CHOOSE b \in h.born : b[1] = k)[2]

\* C7: the cache never holds more than _max_cache_size entries; after
\* _max_cache_size + 1 calls with pairwise distinct keys on the empty cache
\* it holds exactly _max_cache_size entries and the first key is gone.
C7_CacheBound ==
    /\ Len(cache) <= _max_cache_size
    /\ (~hist.repeated /\ Cardinality(hist.called) = _max_cache_size + 1)
           => /\ Len(cache) = _max_cache_size
              /\ hist.first_key \notin Keys(cache)

\* one call more than the cache holds, all keys distinct: full, first gone
C7_Witness ==
    /\ ~hist.repeated
    /\ Cardinality(hist.called) = _max_cache_size + 1
    /\ Len(cache) = _max_cache_size
    /\ hist.first_key \notin Keys(cache)

\* C8: eviction is first-in first-out.  A miss on a full cache evicts the
\* entry stored earliest among those present and nothing else; a hit leaves
\* the contents and the order of the cache alone; so every entry present
\* was stored within the last _max_cache_size insertions, found since or
\* not.
C8_FifoEviction ==
    [][(last'.op = "preprocess_text" /\ isinstance_str(last'.text) /\ truthy(last'.text))
          => LET key == cache_key(last'.text.s)
                 oldest == CHOOSE k \in Keys(cache) :
                               \A j \in Keys(cache) : Born(hist, k) <= Born(hist, j)
             IN  /\ InCache(cache, key) => cache' = cache
                 /\ (~InCache(cache, key) /\ Len(cache) >= _max_cache_size)
                        => /\ Keys(cache') = (Keys(cache) \ {oldest}) \cup {key}
                           /\ \A i \in 1..(Len(cache') - 1) : cache'[i] = cache[i + 1]
                 /\ \A k \in Keys(cache') :
                        hist'.inserted - Born(hist', k) < _max_cache_size]_vars

\* a key that was found in the cache has been evicted from the full cache
C8_Witness ==
    /\ Len(cache) = _max_cache_size
    /\ hist.lost_hit

(***************************************************************************)
(* analyze_sentiment over the analyzer's history: one text is followed,    *)
(* and what the first call with it returned is kept.                       *)
(***************************************************************************)
\* the strings analyzed here: two that share a cache key, and more others
\* than it takes to evict an entry
HistoryTexts ==
    {Long100, Long121, "not bad", "I love this!", "I wish it worked", "if only"}

HistoryInputs == {PyStr(t) : t \in HistoryTexts}

InitHistory ==
    /\ cache = <<>>
    /\ lexicon \in Lexicons
    /\ last = NoCall
    /\ hist = NoHist
    /\ chain = NoChain
    /\ threads = NoThreads
    /\ http = NoHttp
    /\ \E text \in HistoryInputs : probe = [NoProbe EXCEPT !.text = text]

\* a caller runs analyzer.analyze_sentiment(text); the first result for the
\* text followed is kept, and whether the text was analyzed again, and
\* whether another text with the same first 100 characters was analyzed
HistoryAnalyze(text) ==
    /\ AnalyzeCall(text)
    /\ probe' = IF text = probe.text
                THEN IF probe.called
                     THEN [probe EXCEPT !.again = TRUE]
                     ELSE [probe EXCEPT !.called = TRUE, !.first = last'.result]
                ELSE IF Take(text.s, 100) = Take(probe.text.s, 100)
                     THEN [probe EXCEPT !.collided = TRUE]
                     ELSE probe
    /\ UNCHANGED hist

NextHistory == \E text \in HistoryInputs : HistoryAnalyze(text)

SpecHistory == InitHistory /\ [][NextHistory]_vars

\* C10 as stated: two calls of analyze_sentiment with the same text on one
\* analyzer return the same result, whatever was analyzed before or between
\* them.
C10_SameTextSameResult ==
    (last.op = "analyze_sentiment" /\ probe.called /\ last.text = probe.text)
        => last.result = probe.first

\* C10, amended: two calls of analyze_sentiment with the same text on one
\* analyzer return the same result, whatever was analyzed before or between
\* them, unless a different text with the same first 100 characters was
\* analyzed on that analyzer.
C10_SameResultUnlessSharedPrefix ==
    (/\ last.op = "analyze_sentiment"
     /\ probe.called
     /\ last.text = probe.text
     /\ ~probe.collided)
        => last.result = probe.first

\* the text was analyzed, evicted from the full cache and analyzed again
C10_Witness ==
    /\ last.op = "analyze_sentiment"
    /\ last.text = probe.text
    /\ probe.again
    /\ ~probe.collided
    /\ last.lookup = "miss"
    /\ Len(cache) = _max_cache_size
    /\ last.result = probe.first

\* the rows whose trigger matches, for the texts and every normalized text
\* the cache may hand back for one of them, computed once
FiringTable ==
    {<<t, e[2], Firing(lower(t), e[2])>> : t \in Texts, e \in NormalizedTable}

\* no row's trigger matches the text with this normalized text
Abstains(original_text, processed_text) ==
    (CHOOSE e \in FiringTable : e[1] = original_text /\ e[2] = processed_text)[3] = {}

\* how many times the call ran polarity_scores
ScorerCalls == Cardinality({i \in 1..Len(last.calls) : last.calls[i] = "polarity_scores"})

\* C13: within one analyze_sentiment call the scorer is invoked at most once,
\* and exactly when the text is a non-empty string, its normalized form is
\* non-empty and every rule of the chain abstains; never when a rule fires
\* or on the two zero-valued neutral paths.
C13_ScorerInvokedOnce ==
    last.op = "analyze_sentiment" =>
        /\ ScorerCalls <= 1
        /\ ScorerCalls = 1
               <=> (/\ AnalyzedString
                    /\ last.processed # ""
                    /\ Abstains(last.text.s, last.processed))
        /\ (last.scores # PyNone) <=> (ScorerCalls = 1)

\* a text that a rule answers was analyzed, and the scorer was not run
C13_Witness ==
    /\ AnalyzedString
    /\ last.processed # ""
    /\ ~Abstains(last.text.s, last.processed)
    /\ ScorerCalls = 0
    /\ last.calls = <<"preprocess_text", "_get_enhanced_sentiment">>

\* a text that no rule answers was analyzed, and the scorer was run once
C13_WitnessScored ==
    /\ AnalyzedString
    /\ Abstains(last.text.s, last.processed)
    /\ ScorerCalls = 1

\* neg + neu + pos of a result
SumOf(r) == r.neg + r.neu + r.pos

\* what the chain returns for the texts of the rule table
ChainOutputs == {_get_enhanced_sentiment(e[1], e[2]) : e \in ChainTable}

\* C17 as stated: every result analyze_sentiment returns, on any path,
\* has neg + neu + pos = 1 up to the rounding (three scores rounded to 4
\* decimal places), and every vector of the rule chain sums to exactly 1.
C17_EveryResultSumsToOne ==
    /\ last.op = "analyze_sentiment" => abs(SumOf(last.result) - 100000) <= 15
    /\ \A r \in ChainOutputs \ {PyNone} : SumOf(r) = 100000

\* C17, amended: a result of the rule chain has neg + neu + pos = 1 exactly,
\* a result of the scorer has it up to the rounding, and the zero-valued
\* neutral results (empty or non-string input, empty normalized text) have
\* neg + neu + pos = 0; every vector of the rule chain sums to exactly 1.
C17_SumsToOneUnlessZeroResult ==
    /\ last.op = "analyze_sentiment" =>
           IF Len(last.calls) < 2
           THEN SumOf(last.result) = 0
           ELSE IF last.scores = PyNone
           THEN SumOf(last.result) = 100000
           ELSE abs(SumOf(last.result) - 100000) <= 15
    /\ \A r \in ChainOutputs \ {PyNone} : SumOf(r) = 100000

\* a rule answered with a vector of three non-zero scores
C17_Witness ==
    /\ AnalyzedString
    /\ last.calls = <<"preprocess_text", "_get_enhanced_sentiment">>
    /\ last.result.neg > 0 /\ last.result.neu > 0 /\ last.result.pos > 0
    /\ SumOf(last.result) = 100000

\* a zero-valued neutral result was returned
C17_WitnessZero ==
    /\ AnalyzedString
    /\ last.processed = ""
    /\ SumOf(last.result) = 0

\* the lowest row whose trigger matches the text with this normalized text
FirstFiring(original_text, processed_text) ==
    Min((CHOOSE e \in FiringTable : e[1] = original_text /\ e[2] = processed_text)[3])

\* the labels of the rule table
Labels == {"negative", "neutral", "positive", "mixed"}

\* the lowest matching rows of the texts of the rule table that the chain
\* answers 'mixed'
MixedRows ==
    {Min(Firing(lower(e[1]), e[2])) :
        e \in {x \in ChainTable :
                  /\ _get_enhanced_sentiment(x[1], x[2]) # PyNone
                  /\ _get_enhanced_sentiment(x[1], x[2]).sentiment_label = "mixed"}}

\* C22: every result's sentiment_label is one of negative, neutral,
\* positive, mixed, and 'mixed' comes only from rows 4 and 5 of the rule
\* chain: never from the scorer's path or the two zero-valued paths.
C22_MixedOnlyFromRules ==
    /\ last.op = "analyze_sentiment" =>
           /\ last.result.sentiment_label \in Labels
           /\ last.result.sentiment_label = "mixed" =>
                  /\ last.calls = <<"preprocess_text", "_get_enhanced_sentiment">>
                  /\ last.scores = PyNone
                  /\ FirstFiring(last.text.s, last.processed) \in {4, 5}
    /\ \A r \in ChainOutputs \ {PyNone} : r.sentiment_label \in Labels
    /\ MixedRows = {4, 5}

\* rule 4 answered 'mixed'
C22_Witness ==
    /\ AnalyzedString
    /\ last.result.sentiment_label = "mixed"
    /\ FirstFiring(last.text.s, last.processed) = 4

\* a call on a non-empty string returned a normalized text
ReturnedNormalized ==
    /\ last.op \in {"preprocess_text", "analyze_sentiment"}
    /\ isinstance_str(last.text)
    /\ last.text.s # ""

\* C28 as stated: for every string of at most 100 characters preprocess_text
\* returns the same value, the string's own normalization, in every cache
\* state.
C28_AtMost100Stable ==
    (ReturnedNormalized /\ Len(last.text.s) <= 100) =>
        last.processed = Normalized(last.text.s)

\* C28: for every string of fewer than 100 characters preprocess_text
\* returns the string's own normalization in every cache state, on a miss
\* and on a hit; a value that is not the input's own normalization is
\* returned only for inputs of 100 characters or more.
C28_Below100Stable ==
    /\ (ReturnedNormalized /\ Len(last.text.s) < 100) =>
           last.processed = Normalized(last.text.s)
    /\ (ReturnedNormalized /\ last.processed # Normalized(last.text.s)) =>
           (Len(last.text.s) >= 100 /\ last.lookup = "hit")

\* a string of fewer than 100 characters was answered from a full cache
C28_Witness ==
    /\ ReturnedNormalized
    /\ Len(last.text.s) < 100
    /\ last.lookup = "hit"
    /\ Len(cache) = _max_cache_size
    /\ last.processed = Normalized(last.text.s)

\* C25: on the scorer's path the confidence returned is the absolute value
\* of the compound returned, both rounded to 4 decimal places, and lies in
\* [0, 1]; on the override path it is the rule's constant, which is 0.5 with
\* compound 0.0 for the mixed and the neutral vector.
C25_ConfidenceOfCompound ==
    /\ ScorerPath =>
           /\ last.result.confidence = abs(last.result.compound)
           /\ last.result.confidence = round4(abs(last.scores.compound))
           /\ last.result.compound = round4(last.scores.compound)
           /\ last.result.confidence >= 0 /\ last.result.confidence <= 100000
    /\ (last.op = "analyze_sentiment" /\ Len(last.calls) = 2) =>
           /\ last.result.confidence \in {50000, 60000, 70000}
           /\ last.result.sentiment_label \in {"mixed", "neutral"} =>
                  (last.result.confidence = 50000 /\ last.result.compound = 0)
    /\ \A r \in ChainOutputs \ {PyNone} :
           /\ r.confidence \in {50000, 60000, 70000}
           /\ r.sentiment_label \in {"mixed", "neutral"} =>
                  (r.confidence = 50000 /\ r.compound = 0)

\* the scorer returned a negative compound: the confidence is its absolute
\* value
C25_Witness ==
    /\ ScorerPath
    /\ last.result.compound < 0
    /\ last.result.confidence = -last.result.compound

\* a rule answered with confidence 0.5 and compound 0.0
C25_WitnessOverride ==
    /\ last.op = "analyze_sentiment"
    /\ Len(last.calls) = 2
    /\ last.result.confidence = 50000
    /\ last.result.compound = 0

(***************************************************************************)
(* Request threads on the one shared analyzer.  The server is started with  *)
(* app.run(debug=True, host="0.0.0.0", port=5000), which serves every       *)
(* request on a thread of its own, and preprocess_text takes no lock: a     *)
(* thread may be suspended between any two operations on the dictionary.    *)
(* Each operation on the dictionary is one step of its own.                 *)
(***************************************************************************)
\* the request threads running at once
MaxThreads == 2

Threads == 1..MaxThreads

\* the strings the threads normalize: more keys than the cache holds
ThreadTexts == {"if only", "   ", "not bad", "I love this!", "I wish it worked"}

ThreadInputs == {PyStr(t) : t \in ThreadTexts} \cup {PyStr("")}

\* a thread that runs no call
Idle ==
    [pc |-> "idle", text |-> PyNone, cache_key |-> None, result |-> None,
     oldest |-> None, used |-> 0, error |-> None, line |-> 0]

\* cache.pop(key), the key being present
CachePop(c, key) == SelectSeq(c, LAMBDA e : e[1] # key)

\* the analyzer of the module, shared by the request threads
InitThreads ==
    /\ cache = <<>>
    /\ lexicon = 0
    /\ last = NoCall
    /\ hist = NoHist
    /\ probe = NoProbe
    /\ chain = NoChain
    /\ threads = [t \in Threads |-> Idle]
    /\ http = NoHttp

\* the call ends with an exception raised at the line
Raise(t, error, line) ==
    threads' = [threads EXCEPT ![t] = [Idle EXCEPT !.pc = "raised",
                                                   !.text = threads[t].text,
                                                   !.error = error,
                                                   !.line = line]]

\* the call returns the value
Return(t, value) ==
    threads' = [threads EXCEPT ![t] = [Idle EXCEPT !.pc = "returned",
                                                   !.text = threads[t].text,
                                                   !.result = value]]

\* the thread goes on to the statement at pc
Goto(t, pc) == threads' = [threads EXCEPT ![t].pc = pc]

\* a thread calls preprocess_text(text): the guard, and cache_key = text[:100]
ThreadCall(t, text) ==
    /\ threads[t].pc = "idle"
    /\ IF ~truthy(text) \/ ~isinstance_str(text)
       THEN threads' = [threads EXCEPT ![t] = [Idle EXCEPT !.pc = "returned",
                                                           !.text = text,
                                                           !.result = ""]]
       ELSE threads' = [threads EXCEPT ![t] = [Idle EXCEPT !.pc = "contains",
                                                           !.text = text,
                                                           !.cache_key = cache_key(text.s)]]
    /\ UNCHANGED <<cache, lexicon, last, hist, probe, chain, http>>

\* if cache_key in self._preprocessing_cache
ThreadContains(t) ==
    /\ threads[t].pc = "contains"
    /\ IF InCache(cache, threads[t].cache_key)
       THEN Goto(t, "getitem")
       ELSE Goto(t, "pipeline")
    /\ UNCHANGED <<cache, lexicon, last, hist, probe, chain, http>>

\* return self._preprocessing_cache[cache_key]
ThreadGetItem(t) ==
    /\ threads[t].pc = "getitem"
    /\ IF InCache(cache, threads[t].cache_key)
       THEN Return(t, CacheGet(cache, threads[t].cache_key))
       ELSE Raise(t, "KeyError", 145)
    /\ UNCHANGED <<cache, lexicon, last, hist, probe, chain, http>>

\* the pipeline, from text.lower() to result = " ".join(tokens)
ThreadPipeline(t) ==
    /\ threads[t].pc = "pipeline"
    /\ threads' = [threads EXCEPT ![t].pc = "len",
                                  ![t].result = Normalized(threads[t].text.s)]
    /\ UNCHANGED <<cache, lexicon, last, hist, probe, chain, http>>

\* if len(self._preprocessing_cache) >= self._max_cache_size
ThreadLen(t) ==
    /\ threads[t].pc = "len"
    /\ IF Len(cache) >= _max_cache_size
       THEN Goto(t, "iter")
       ELSE Goto(t, "setitem")
    /\ UNCHANGED <<cache, lexicon, last, hist, probe, chain, http>>

\* iter(self._preprocessing_cache): the iterator remembers the size
ThreadIter(t) ==
    /\ threads[t].pc = "iter"
    /\ threads' = [threads EXCEPT ![t].pc = "next", ![t].used = Len(cache)]
    /\ UNCHANGED <<cache, lexicon, last, hist, probe, chain, http>>

\* next(...): the first key, unless the dictionary changed size or is empty
ThreadNext(t) ==
    /\ threads[t].pc = "next"
    /\ IF Len(cache) # threads[t].used
       THEN Raise(t, "RuntimeError", 176)
       ELSE IF Len(cache) = 0
            THEN Raise(t, "StopIteration", 176)
            ELSE threads' = [threads EXCEPT ![t].pc = "pop",
                                            ![t].used = 0,
                                            ![t].oldest = cache[1][1]]
    /\ UNCHANGED <<cache, lexicon, last, hist, probe, chain, http>>

\* self._preprocessing_cache.pop(...)
ThreadPop(t) ==
    /\ threads[t].pc = "pop"
    /\ IF InCache(cache, threads[t].oldest)
       THEN /\ cache' = CachePop(cache, threads[t].oldest)
            /\ threads' = [threads EXCEPT ![t].pc = "setitem",
                                          ![t].oldest = None]
       ELSE /\ Raise(t, "KeyError", 176)
            /\ UNCHANGED cache
    /\ UNCHANGED <<lexicon, last, hist, probe, chain, http>>

\* self._preprocessing_cache[cache_key] = result; return result
ThreadSetItem(t) ==
    /\ threads[t].pc = "setitem"
    /\ cache' = CacheSet(cache, threads[t].cache_key, threads[t].result)
    /\ Return(t, threads[t].result)
    /\ UNCHANGED <<lexicon, last, hist, probe, chain, http>>

\* the request is answered and the thread serves the next one
ThreadDone(t) ==
    /\ threads[t].pc \in {"returned", "raised"}
    /\ threads' = [threads EXCEPT ![t] = Idle]
    /\ UNCHANGED <<cache, lexicon, last, hist, probe, chain, http>>

NextThreads ==
    \E t \in Threads :
        \/ \E text \in ThreadInputs : ThreadCall(t, text)
        \/ ThreadContains(t)
        \/ ThreadGetItem(t)
        \/ ThreadPipeline(t)
        \/ ThreadLen(t)
        \/ ThreadIter(t)
        \/ ThreadNext(t)
        \/ ThreadPop(t)
        \/ ThreadSetItem(t)
        \/ ThreadDone(t)

SpecThreads == InitThreads /\ [][NextThreads]_vars

\* C11 as stated: with request threads running preprocess_text at once on the
\* shared analyzer, the cache never holds more than _max_cache_size entries.
C11_CacheBoundUnderThreads == Len(cache) <= _max_cache_size

\* C12 as stated: with request threads running preprocess_text at once, no
\* call fails at the eviction because the entry it selected was removed or
\* the cache changed size in between, and no two threads are about to remove
\* the same oldest entry.
C12_NoEvictionRace ==
    /\ \A t \in Threads : ~(threads[t].pc = "raised" /\ threads[t].line = 176)
    /\ \A t, u \in Threads :
           (t # u /\ threads[t].pc = "pop" /\ threads[u].pc = "pop")
               => threads[t].oldest # threads[u].oldest

(***************************************************************************)
(* The endpoints /api/analyze and /api/batch-analyze, one request at a     *)
(* time, and direct calls of the analyzer, each with a library function    *)
(* that may fail during it.  A response is its status, its JSON object, the *)
(* cache left and the number of analyze_sentiment calls made.              *)
(***************************************************************************)
\* the longest list of a batch
MaxBatch == 2

\* `key in data`, data being a dict, a list or a string
py_in(key, data) ==
    CASE data.type = "dict" -> InCache(data.items, key)
      [] data.type = "list" -> \E i \in 1..Len(data.l) : data.l[i] = PyStr(key)
      [] data.type = "str" -> Contains(key, data.s)

\* whether `key in data` can be evaluated: it raises TypeError on a number
iterable(data) == data.type \in {"dict", "list", "str"}

\* the response of the except branch, lines 1036-1047 and 1086-1096
Response500(c, calls, message) ==
    [status |-> 500,
     json |-> [error |-> message, details |-> "str(e)"],
     cache |-> c, calls |-> calls]

\* a response of the validation, lines 1011-1026 and 1056-1070
Response400(c, json) == [status |-> 400, json |-> json, cache |-> c, calls |-> 0]

\* jsonify(...) of a returned value, with status 200
Response200(c, calls, json) == [status |-> 200, json |-> json, cache |-> c, calls |-> calls]

\* /api/analyze answering a failure of the core as if the text were empty
analyze_answer_lenient(r, text) ==
    IF r.raised # None
    THEN Response200(r.cache, 1, Result(0, 0, 0, 0, "neutral", 0, text, ""))
    ELSE Response200(r.cache, 1, r.result)

\* analyze_sentiment_api, lines 1028-1047: the result of the core, or the
\* except branch when it raised
analyze_answer(r, text) ==
    IF r.raised # None
    THEN Response500(r.cache, 1, "An error occurred during sentiment analysis.")
    ELSE Response200(r.cache, 1, r.result)

\* analyze_sentiment_api() on the body data = request.get_json()
analyze_sentiment_api(c, lex, data, fault) ==
    IF ~truthy(data)
    THEN Response400(c, [error |-> "Invalid request. Please provide text in JSON format.",
                         example |-> [text |-> "Your text here"]])
    ELSE IF ~iterable(data)
    THEN Response500(c, 0, "An error occurred during sentiment analysis.")
    ELSE IF ~py_in("text", data)
    THEN Response400(c, [error |-> "Invalid request. Please provide text in JSON format.",
                         example |-> [text |-> "Your text here"]])
    ELSE IF data.type # "dict"
    THEN Response500(c, 0, "An error occurred during sentiment analysis.")
    ELSE IF ~isinstance_str(CacheGet(data.items, "text"))
    THEN Response400(c, [error |-> "Text must be a string."])
    ELSE analyze_answer(analyze_sentiment_failing(c, lex, CacheGet(data.items, "text"), fault),
                        CacheGet(data.items, "text"))

\* the loop of the batch with the results put in front
RECURSIVE batch_loop_prepend(_, _, _, _, _, _)
batch_loop_prepend(c, lex, texts, i, results, fault) ==
    IF i > Len(texts)
    THEN [raised |-> None, results |-> results, cache |-> c, calls |-> Len(results)]
    ELSE IF ~isinstance_str(texts[i])
    THEN batch_loop_prepend(c, lex, texts, i + 1, results, fault)
    ELSE LET r == analyze_sentiment_failing(c, lex, texts[i], fault)
         IN  IF r.raised # None
             THEN [raised |-> r.raised, results |-> results, cache |-> r.cache,
                   calls |-> Len(results) + 1]
             ELSE batch_loop_prepend(r.cache, lex, texts, i + 1,
                                     <<r.result>> \o results, fault)

\* the loop of the batch appending one result object that every call
\* overwrites
RECURSIVE batch_loop_aliased(_, _, _, _, _, _)
batch_loop_aliased(c, lex, texts, i, results, fault) ==
    IF i > Len(texts)
    THEN [raised |-> None, results |-> results, cache |-> c, calls |-> Len(results)]
    ELSE IF ~isinstance_str(texts[i])
    THEN batch_loop_aliased(c, lex, texts, i + 1, results, fault)
    ELSE LET r == analyze_sentiment_failing(c, lex, texts[i], fault)
         IN  IF r.raised # None
             THEN [raised |-> r.raised, results |-> results, cache |-> r.cache,
                   calls |-> Len(results) + 1]
             ELSE batch_loop_aliased(r.cache, lex, texts, i + 1,
                                     [j \in 1..(Len(results) + 1) |-> r.result], fault)

\* batch_analyze_sentiment, lines 1072-1076: the loop from the i-th text on
RECURSIVE batch_loop(_, _, _, _, _, _)
batch_loop(c, lex, texts, i, results, fault) ==
    IF i > Len(texts)
    THEN [raised |-> None, results |-> results, cache |-> c, calls |-> Len(results)]
    ELSE IF ~isinstance_str(texts[i])
    THEN batch_loop(c, lex, texts, i + 1, results, fault)
    ELSE LET r == analyze_sentiment_failing(c, lex, texts[i], fault)
         IN  IF r.raised # None
             THEN [raised |-> r.raised, results |-> results, cache |-> r.cache,
                   calls |-> Len(results) + 1]
             ELSE batch_loop(r.cache, lex, texts, i + 1, Append(results, r.result), fault)

\* batch_analyze_sentiment, lines 1078-1096: the response after the loop
batch_answer(b) ==
    IF b.raised # None
    THEN Response500(b.cache, b.calls, "An error occurred during batch sentiment analysis.")
    ELSE Response200(b.cache, b.calls,
                     [results |-> b.results, total_analyzed |-> Len(b.results),
                      timestamp |-> "datetime.now().isoformat()"])

\* batch_analyze_sentiment() on the body data = request.get_json()
batch_analyze_sentiment(c, lex, data, fault) ==
    IF ~truthy(data)
    THEN Response400(c, [error |-> "Invalid request. Please provide texts array in JSON format.",
                         example |-> [texts |-> <<"text1", "text2", "text3">>]])
    ELSE IF ~iterable(data)
    THEN Response500(c, 0, "An error occurred during batch sentiment analysis.")
    ELSE IF ~py_in("texts", data)
    THEN Response400(c, [error |-> "Invalid request. Please provide texts array in JSON format.",
                         example |-> [texts |-> <<"text1", "text2", "text3">>]])
    ELSE IF data.type # "dict"
    THEN Response500(c, 0, "An error occurred during batch sentiment analysis.")
    ELSE IF CacheGet(data.items, "texts").type # "list"
    THEN Response400(c, [error |-> "Texts must be a non-empty array."])
    ELSE IF Len(CacheGet(data.items, "texts").l) = 0
    THEN Response400(c, [error |-> "Texts must be a non-empty array."])
    ELSE batch_answer(batch_loop(c, lex, CacheGet(data.items, "texts").l, 1, <<>>, fault))

\* the strings sent: two that share a cache key, and others
ApiTexts == {"I love this!", "not bad", "if only", Long100, Long121}

\* the arguments of the direct calls
ApiInputs == {PyStr(t) : t \in ApiTexts} \cup {PyStr(""), PyNone, PyInt(42)}

\* the items of the lists sent
BatchEntries == {PyStr("I love this!"), PyStr(Long100), PyStr(Long121), PyInt(42)}

BatchLists == UNION {[1..n -> BatchEntries] : n \in 0..MaxBatch}

\* the JSON bodies sent to /api/analyze
AnalyzeBodies ==
    {PyNone, PyDict(<<>>), PyInt(5), PyStr("text"), PyStr("abc"),
     PyList(<<PyInt(1)>>),
     PyDict(<<<<"texts", PyList(<<PyStr("not bad")>>)>>>>),
     PyDict(<<<<"text", PyInt(42)>>>>),
     PyDict(<<<<"text", PyNone>>>>),
     PyDict(<<<<"text", PyList(<<PyStr("not bad")>>)>>>>)}
        \cup {PyDict(<<<<"text", PyStr(t)>>>>) : t \in ApiTexts \cup {""}}

\* the JSON bodies sent to /api/batch-analyze
BatchBodies ==
    {PyNone, PyDict(<<>>), PyInt(5), PyStr("texts"),
     PyDict(<<<<"text", PyStr("not bad")>>>>),
     PyDict(<<<<"texts", PyStr("not bad")>>>>),
     PyDict(<<<<"texts", PyNone>>>>)}
        \cup {PyDict(<<<<"texts", PyList(l)>>>>) : l \in BatchLists}

\* a direct call made with no failure recorded
NoCallFailing ==
    [op |-> "none", text |-> PyNone, result |-> PyNone, processed |-> "",
     lookup |-> "none", calls |-> <<>>, scores |-> PyNone, raised |-> None,
     fault |-> "none", before |-> <<>>]

\* no request served yet
NoRequest ==
    [endpoint |-> "none", data |-> PyNone, fault |-> "none", status |-> 0,
     json |-> PyNone, calls |-> 0, before |-> <<>>, seen |-> {}]

\* the strings among the values that are long enough to share their first
\* 100 characters with a different text
LongTexts(values) == {v.s : v \in {w \in values : isinstance_str(w) /\ Len(w.s) >= 100}}

\* the values a request hands to analyze_sentiment
Submitted(endpoint, data) ==
    IF data.type # "dict" \/ ~InCache(data.items, endpoint)
    THEN {}
    ELSE IF endpoint = "text"
    THEN {CacheGet(data.items, "text")}
    ELSE IF CacheGet(data.items, "texts").type # "list"
    THEN {}
    ELSE {CacheGet(data.items, "texts").l[i] : i \in 1..Len(CacheGet(data.items, "texts").l)}

\* the analyzer of the module; no long text analyzed yet
InitApi ==
    /\ cache = <<>>
    /\ lexicon \in {0, 1}
    /\ last = NoCallFailing
    /\ hist = [seen |-> {}]
    /\ probe = NoProbe
    /\ chain = NoChain
    /\ threads = NoThreads
    /\ http = NoRequest

\* no call is running and no request is being served
Waiting == last = NoCallFailing /\ http = NoRequest

\* a caller runs analyzer.preprocess_text(text) while the function fails
CorePreprocess(text, fault) ==
    /\ Waiting
    /\ \E r \in {preprocess_text_failing(cache, text, fault)} :
        /\ cache' = r.cache
        /\ last' = [op |-> "preprocess_text", text |-> text, result |-> PyNone,
                    processed |-> r.result, lookup |-> r.lookup, calls |-> <<>>,
                    scores |-> PyNone, raised |-> r.raised, fault |-> fault,
                    before |-> cache]
        /\ hist' = [seen |-> hist.seen \cup LongTexts({text})]
        /\ http' = NoRequest
        /\ UNCHANGED <<lexicon, probe, chain, threads>>

\* a caller runs analyzer.analyze_sentiment(text) while the function fails
CoreAnalyze(text, fault) ==
    /\ Waiting
    /\ \E r \in {analyze_sentiment_failing(cache, lexicon, text, fault)} :
        /\ cache' = r.cache
        /\ last' = [op |-> "analyze_sentiment", text |-> text, result |-> r.result,
                    processed |-> r.processed, lookup |-> r.lookup, calls |-> r.calls,
                    scores |-> r.scores, raised |-> r.raised, fault |-> fault,
                    before |-> cache]
        /\ hist' = [seen |-> hist.seen \cup LongTexts({text})]
        /\ http' = NoRequest
        /\ UNCHANGED <<lexicon, probe, chain, threads>>

\* a client posts the body to /api/analyze while the function fails
ApiAnalyze(data, fault) ==
    /\ Waiting
    /\ \E r \in {analyze_sentiment_api(cache, lexicon, data, fault)} :
        /\ cache' = r.cache
        /\ http' = [endpoint |-> "/api/analyze", data |-> data, fault |-> fault,
                    status |-> r.status, json |-> r.json, calls |-> r.calls,
                    before |-> cache, seen |-> hist.seen]
        /\ hist' = [seen |-> hist.seen \cup LongTexts(Submitted("text", data))]
        /\ last' = NoCallFailing
        /\ UNCHANGED <<lexicon, probe, chain, threads>>

\* a client posts the body to /api/batch-analyze while the function fails
ApiBatch(data, fault) ==
    /\ Waiting
    /\ \E r \in {batch_analyze_sentiment(cache, lexicon, data, fault)} :
        /\ cache' = r.cache
        /\ http' = [endpoint |-> "/api/batch-analyze", data |-> data, fault |-> fault,
                    status |-> r.status, json |-> r.json, calls |-> r.calls,
                    before |-> cache, seen |-> hist.seen]
        /\ hist' = [seen |-> hist.seen \cup LongTexts(Submitted("texts", data))]
        /\ last' = NoCallFailing
        /\ UNCHANGED <<lexicon, probe, chain, threads>>

\* the caller has its value or its exception, the client its response: the
\* analyzer waits for the next call
Served ==
    /\ ~Waiting
    /\ last' = NoCallFailing
    /\ http' = NoRequest
    /\ UNCHANGED <<cache, lexicon, hist, probe, chain, threads>>

NextApi ==
    \/ \E text \in ApiInputs, fault \in Faults : CorePreprocess(text, fault)
    \/ \E text \in ApiInputs, fault \in Faults : CoreAnalyze(text, fault)
    \/ \E data \in AnalyzeBodies, fault \in Faults : ApiAnalyze(data, fault)
    \/ \E data \in BatchBodies, fault \in Faults : ApiBatch(data, fault)
    \/ Served

SpecApi == InitApi /\ [][NextApi]_vars

\* the body is a JSON object holding the key
HasKey(data, key) == data.type = "dict" /\ \E i \in 1..Len(data.items) : data.items[i][1] = key

\* the value under the key of such a body
ValueOf(data, key) == data.items[CHOOSE i \in 1..Len(data.items) : data.items[i][1] = key][2]

\* the last request was a batch with a non-empty list 'texts'
BatchOfList ==
    /\ http.endpoint = "/api/batch-analyze"
    /\ HasKey(http.data, "texts")
    /\ ValueOf(http.data, "texts").type = "list"
    /\ Len(ValueOf(http.data, "texts").l) > 0

\* the string entries of the list, in the order sent
StringEntries == SelectSeq(ValueOf(http.data, "texts").l, isinstance_str)

\* C14: for a batch request with a non-empty list 'texts' the results hold
\* exactly one result per string entry, in the order of the string entries;
\* entries that are no strings are skipped without an error; total_analyzed
\* is the number of results.
C14_BatchResultsInOrder ==
    BatchOfList =>
        /\ http.fault = "none" => http.status = 200
        /\ http.status = 200 =>
               /\ Len(http.json.results) = Len(StringEntries)
               /\ \A i \in 1..Len(http.json.results) :
                      IF "original_text" \in DOMAIN http.json.results[i]
                      THEN http.json.results[i].original_text = StringEntries[i]
                      ELSE Normalized(StringEntries[i].s) = ""
               /\ http.json.total_analyzed = Len(http.json.results)

\* a batch of the greatest length holding one entry that is no string was
\* answered with the results of the others
C14_Witness ==
    /\ BatchOfList
    /\ http.status = 200
    /\ Len(ValueOf(http.data, "texts").l) = MaxBatch
    /\ \E i \in 1..MaxBatch : ~isinstance_str(ValueOf(http.data, "texts").l[i])
    /\ Len(http.json.results) = MaxBatch - 1
    /\ http.json.total_analyzed = MaxBatch - 1
    /\ http.json.results[1].original_text = StringEntries[1]

\* a batch of two different strings was answered in their order
C14_WitnessOrder ==
    /\ BatchOfList
    /\ http.status = 200
    /\ Len(http.json.results) >= 2
    /\ http.json.results[1].original_text # http.json.results[2].original_text
    /\ http.json.results[1].original_text = ValueOf(http.data, "texts").l[1]

\* what the entry gets when it is the only entry of the batch
Alone(text) == analyze_sentiment(http.before, lexicon, text).result

\* C15 as stated: the result of a string entry of a batch is the result it
\* gets alone, whatever the other entries are, entries sharing its first 100
\* characters included.
C15_EntriesIndependent ==
    (BatchOfList /\ http.status = 200) =>
        \A i \in 1..Len(StringEntries) : http.json.results[i] = Alone(StringEntries[i])

\* no different text with the same first 100 characters as the i-th string
\* entry was handed to the analyzer before it
NoSharedPrefixBefore(i) ==
    \A u \in http.seen \cup LongTexts({StringEntries[j] : j \in 1..(i - 1)}) :
        u = StringEntries[i].s \/ Take(u, 100) # Take(StringEntries[i].s, 100)

\* C15, amended: the result of a string entry of a batch is the result it
\* gets alone, whatever the other entries are, provided no different text
\* with the same first 100 characters was handed to the analyzer before it,
\* in this batch or earlier.
C15_IndependentUnlessSharedPrefix ==
    (BatchOfList /\ http.status = 200) =>
        \A i \in 1..Len(StringEntries) :
            NoSharedPrefixBefore(i) => http.json.results[i] = Alone(StringEntries[i])

\* a batch whose first entry evicted the entry that the second entry, sent
\* alone, would have been served
C15_Witness ==
    /\ BatchOfList
    /\ http.status = 200
    /\ Len(StringEntries) = 2
    /\ StringEntries[1] # StringEntries[2]
    /\ NoSharedPrefixBefore(2)
    /\ Len(http.before) = _max_cache_size
    /\ http.before[1][1] = cache_key(StringEntries[2].s)
    /\ ~InCache(http.before, cache_key(StringEntries[1].s))
    /\ http.json.results[2] = Alone(StringEntries[2])

\* C18 as stated: no exception leaves preprocess_text; when the tokenizer or
\* the lemmatizer fails it returns the empty string.
C18_NoExceptionEscapes ==
    last.op = "preprocess_text" => (last.raised = None /\ last.processed # None)

\* the call of the scorer is reached: a non-empty string whose normalized
\* text is non-empty and that no rule answers
ReachesScorer(before, text) ==
    /\ isinstance_str(text)
    /\ analyze_sentiment(before, lexicon, text).scores # PyNone

\* C19: when the scorer raises, analyze_sentiment lets the exception through
\* and returns no result; /api/analyze answers 500 with an 'error' field and
\* no result.
C19_ScorerFailureSurfaces ==
    /\ (/\ last.op = "analyze_sentiment"
        /\ last.fault = "polarity_scores"
        /\ ReachesScorer(last.before, last.text))
           => (last.raised = "Exception" /\ last.result = PyNone)
    /\ (/\ http.endpoint = "/api/analyze"
        /\ http.fault = "polarity_scores"
        /\ HasKey(http.data, "text")
        /\ ReachesScorer(http.before, ValueOf(http.data, "text")))
           => /\ http.status = 500
              /\ "error" \in DOMAIN http.json
              /\ DOMAIN http.json \cap ScoreKeys = {}

\* the scorer raised during a request to /api/analyze
C19_Witness ==
    /\ http.endpoint = "/api/analyze"
    /\ http.fault = "polarity_scores"
    /\ HasKey(http.data, "text")
    /\ ReachesScorer(http.before, ValueOf(http.data, "text"))
    /\ http.status = 500
    /\ http.calls = 1

\* the scorer raised during a direct call
C19_WitnessCore ==
    /\ last.op = "analyze_sentiment"
    /\ last.fault = "polarity_scores"
    /\ last.raised = "Exception"

\* the value is the empty string, None or not a string
EmptyOrNoString(text) == text = PyStr("") \/ ~isinstance_str(text)

\* C27: preprocess_text and analyze_sentiment called with the empty string,
\* None or a value that is no string leave the cache as it was and call
\* neither the tokenizer nor the rule chain nor the scorer (whichever of them
\* would fail, nothing is raised); preprocess_text returns "".
C27_EmptyInputTouchesNothing ==
    (last.op \in {"preprocess_text", "analyze_sentiment"}
       /\ EmptyOrNoString(last.text)) =>
        /\ cache = last.before
        /\ last.lookup = "skip"
        /\ last.calls = <<>>
        /\ last.scores = PyNone
        /\ last.raised = None
        /\ last.op = "preprocess_text" => last.processed = ""
        /\ last.op = "analyze_sentiment" =>
               (last.result # PyNone /\ last.result.processed_text = "")

\* preprocess_text was given the empty string with entries in the cache,
\* while the tokenizer would fail
C27_Witness ==
    /\ last.op = "preprocess_text"
    /\ last.text = PyStr("")
    /\ last.fault = "word_tokenize"
    /\ last.processed = ""
    /\ Len(cache) > 0

\* analyze_sentiment was given a value that is no string, while the scorer
\* would fail
C27_WitnessAnalyze ==
    /\ last.op = "analyze_sentiment"
    /\ ~isinstance_str(last.text)
    /\ last.fault = "polarity_scores"
    /\ last.raised = None
    /\ Len(cache) > 0

\* the request is rejected by the validation: 400, an 'error' field, the
\* core not called, the cache as it was
Rejected ==
    /\ http.status = 400
    /\ "error" \in DOMAIN http.json
    /\ http.calls = 0
    /\ cache = http.before

\* C20 as stated: /api/analyze rejects a body without a 'text' key or with a
\* 'text' that is no string, /api/batch-analyze a body without a 'texts' key
\* or with 'texts' that is no list or an empty list, each with 400 and an
\* 'error' field before the core is called and with the cache unchanged; an
\* empty-string 'text' is answered 200 with the neutral result.
C20_ValidationRejects ==
    /\ (http.endpoint = "/api/analyze" /\ ~HasKey(http.data, "text")) => Rejected
    /\ (/\ http.endpoint = "/api/analyze"
        /\ HasKey(http.data, "text")
        /\ ~isinstance_str(ValueOf(http.data, "text"))) => Rejected
    /\ (http.endpoint = "/api/batch-analyze" /\ ~HasKey(http.data, "texts")) => Rejected
    /\ (/\ http.endpoint = "/api/batch-analyze"
        /\ HasKey(http.data, "texts")
        /\ \/ ValueOf(http.data, "texts").type # "list"
           \/ Len(ValueOf(http.data, "texts").l) = 0) => Rejected
    /\ (/\ http.endpoint = "/api/analyze"
        /\ HasKey(http.data, "text")
        /\ ValueOf(http.data, "text") = PyStr(""))
           => /\ http.status = 200
              /\ http.json = Result(0, 0, 0, 0, "neutral", 0, PyStr(""), "")

(***************************************************************************)
(* The rounding of the scorer's path on its own: score vectors of five     *)
(* decimal places whose neg, neu and pos sum to 1, with ties of round(x, 4) *)
(* among them.                                                             *)
(***************************************************************************)
\* neg and pos of the vectors, in units of 0.00001
NegParts == {0, 5, 15, 25, 12345, 33333, 33335, 49995}

PosParts == {0, 4, 5, 15, 12346, 33333, 33335, 50005}

\* the scorer's vectors with neg + neu + pos = 1
ScoreVectors ==
    {[neg |-> n, neu |-> 100000 - n - p, pos |-> p, compound |-> c] :
        n \in NegParts, p \in PosParts, c \in {-5004, 0, 63695}}

\* a vector the scorer returned, not yet made a result
InitScorer ==
    /\ cache = <<>>
    /\ lexicon = 0
    /\ \E v \in ScoreVectors : last = [NoCall EXCEPT !.scores = v]
    /\ hist = NoHist
    /\ probe = NoProbe
    /\ chain = NoChain
    /\ threads = NoThreads
    /\ http = NoHttp

\* analyze_sentiment builds the result from the vector
RoundScores ==
    /\ last.op = "none"
    /\ last' = [last EXCEPT !.op = "ScorerResult",
                            !.result = ScorerResult(last.scores, PyStr("good"), "good")]
    /\ UNCHANGED <<cache, lexicon, hist, probe, chain, threads, http>>

NextScorer == RoundScores

SpecScorer == InitScorer /\ [][NextScorer]_vars

\* round(x, 2): to the nearest multiple of 0.01, a tie to the even one
round2(x) ==
    LET q == x \div 1000
        r == x % 1000
    IN  IF r < 500 THEN q * 1000
        ELSE IF r > 500 THEN (q + 1) * 1000
        ELSE IF q % 2 = 0 THEN q * 1000 ELSE (q + 1) * 1000

\* C16: for a result of the scorer's path, the scorer's neg, neu and pos
\* summing to 1, the returned neg, neu and pos (each rounded to 4 decimal
\* places) satisfy round(neg + neu + pos, 2) == 1.00.
C16_ScorerSumRounds ==
    last.op = "ScorerResult" =>
        /\ last.scores.neg + last.scores.neu + last.scores.pos = 100000
        /\ last.result.neg = round4(last.scores.neg)
        /\ round2(last.result.neg + last.result.neu + last.result.pos) = 100000

\* a vector whose rounded scores no longer sum to 1
C16_Witness ==
    /\ last.op = "ScorerResult"
    /\ last.result.neg # last.scores.neg
    /\ last.result.neg + last.result.neu + last.result.pos # 100000
    /\ round2(last.result.neg + last.result.neu + last.result.pos) = 100000

(***************************************************************************)
(* Normalizing a text and then the value returned for it.                  *)
(***************************************************************************)
\* the analyzer of the module; no text normalized yet
InitNormalize ==
    /\ cache = <<>>
    /\ lexicon = 0
    /\ last = NoCall
    /\ hist = NoHist
    /\ probe = NoProbe
    /\ chain = NoChain
    /\ threads = NoThreads
    /\ http = NoHttp

\* a caller runs analyzer.preprocess_text(text) and keeps the value
NormalizeCall(text) ==
    /\ PreprocessCall(text)
    /\ probe' = [NoProbe EXCEPT !.text = text, !.called = TRUE,
                                !.first = PyStr(last'.processed)]
    /\ UNCHANGED hist

\* the caller runs analyzer.preprocess_text on the value it kept
NormalizeAgain ==
    /\ probe.called
    /\ ~probe.again
    /\ PreprocessCall(probe.first)
    /\ probe' = [probe EXCEPT !.again = TRUE]
    /\ UNCHANGED hist

NextNormalize ==
    \/ \E t \in NormalizeTexts : NormalizeCall(PyStr(t))
    \/ NormalizeAgain

SpecNormalize == InitNormalize /\ [][NextNormalize]_vars

\* C21 as stated: preprocess_text(preprocess_text(text)) equals
\* preprocess_text(text) for every string text.
C21_Idempotent == probe.again => last.processed = probe.first.s

\* the occurrences of p in s
Count(p, s) == Cardinality({i \in 1..Len(s) : HasAt(s, i, p)})

\* C24: the idioms are replaced before the slang terms, so 'sick sound'
\* becomes 'bad sound', and the gloss 'excellent' of the slang term 'sick'
\* is applied only to the occurrences of 'sick' outside the idiom.
C24_IdiomBeforeSlang ==
    (/\ last.op = "preprocess_text"
     /\ ~probe.again
     /\ last.lookup = "miss"
     /\ Contains("sick sound", lower(last.text.s)))
        => /\ Count("bad sound", last.processed) = Count("sick sound", lower(last.text.s))
           /\ Count("excellent", last.processed)
                  = Count("sick", lower(last.text.s)) - Count("sick sound", lower(last.text.s))
           /\ ~Contains("sick", last.processed)

\* a text with 'sick' inside the idiom and outside it was normalized
C24_Witness ==
    /\ last.op = "preprocess_text"
    /\ ~probe.again
    /\ last.lookup = "miss"
    /\ Count("sick sound", lower(last.text.s)) = 1
    /\ Count("sick", lower(last.text.s)) = 2
    /\ last.processed = "bad sound , excellent beat"

(***************************************************************************)
(* _handle_negation on its own.  negation_words is a set: the order in     *)
(* which the loop of line 218 walks it is not fixed by the language and    *)
(* changes with the hash seed of the process.  Here the walk is given its  *)
(* order.                                                                  *)
(***************************************************************************)
\* the negation words as the source lists them
NegationListed ==
    <<"not", "no", "never", "nothing", "nowhere", "noone", "none", "not a",
      "isn't", "aren't", "wasn't", "weren't", "don't", "doesn't", "didn't",
      "won't", "wouldn't", "couldn't", "shouldn't">>

\* order from its k-th item on, then its first k - 1 items
Rotated(order, k) ==
    [i \in 1..Len(order) |-> order[((i + k - 2) % Len(order)) + 1]]

Reversed(order) == [i \in 1..Len(order) |-> order[Len(order) + 1 - i]]

\* iteration orders of the set: every word comes first in one of them and
\* last in another
NegationOrders ==
    {Rotated(NegationListed, k) : k \in 1..Len(NegationListed)}
      \cup {Reversed(Rotated(NegationListed, k)) : k \in 1..Len(NegationListed)}

NegationTexts ==
    {"This is not good", "The movie was not bad at all.",
     "It is not good and not bad", "Not great, not wonderful", "NOT EXCELLENT",
     "Nothing was wonderful", "I don't dislike it", "I love this!",
     "No, never again", "It isn't good", "not unhappy, not good",
     "It wasn't excellent, not a bit"}

\* the walk returning the word it found when no pattern matches
RECURSIVE simple_negation_word(_, _, _)
simple_negation_word(order, i, text_lower) ==
    IF i > Len(order) THEN None
    ELSE IF Contains(order[i], text_lower)
    THEN LET sn == {j \in 1..Len(negation_patterns) :
                       Contains(negation_patterns[j][1], text_lower)}
         IN  IF sn # {} THEN negation_patterns[Min(sn)][2] ELSE order[i]
    ELSE simple_negation_word(order, i + 1, text_lower)

\* lines 218-223: for each negation word, in the order given, that is in the
\* text, the first pattern that matches returns; with none the walk goes on
RECURSIVE simple_negation(_, _, _)
simple_negation(order, i, text_lower) ==
    IF i > Len(order) THEN None
    ELSE IF Contains(order[i], text_lower)
    THEN LET sn == {j \in 1..Len(negation_patterns) :
                       Contains(negation_patterns[j][1], text_lower)}
         IN  IF sn # {} THEN negation_patterns[Min(sn)][2]
             ELSE simple_negation(order, i + 1, text_lower)
    ELSE simple_negation(order, i + 1, text_lower)

\* _handle_negation(text) with the set walked in the order given
_handle_negation_ordered(text, order) ==
    LET text_lower == lower(text)
        dn == {i \in 1..Len(double_negation_patterns) :
                  Contains(double_negation_patterns[i][1], text_lower)}
    IN  IF dn # {} THEN double_negation_patterns[Min(dn)][2]
        ELSE simple_negation(order, 1, text_lower)

NoNegation == [text |-> "", order |-> <<>>, called |-> FALSE, result |-> None]

\* a text, and the order in which this process walks the set
InitNegation ==
    /\ cache = <<>>
    /\ lexicon = 0
    /\ last = NoCall
    /\ hist = NoHist
    /\ chain = NoChain
    /\ threads = NoThreads
    /\ http = NoHttp
    /\ \E text \in NegationTexts, order \in NegationOrders :
           probe = [NoNegation EXCEPT !.text = text, !.order = order]

\* self._handle_negation(text)
HandleNegation ==
    /\ ~probe.called
    /\ probe' = [probe EXCEPT !.called = TRUE,
                              !.result = _handle_negation_ordered(probe.text,
                                                                  probe.order)]
    /\ UNCHANGED <<cache, lexicon, last, hist, chain, threads, http>>

NextNegation == HandleNegation

SpecNegation == InitNegation /\ [][NextNegation]_vars

\* the value returned for the text with the set walked as listed
ListedResult(text) == _handle_negation_ordered(text, NegationListed)

\* C30: what _handle_negation returns depends on its text only: it is the
\* same for every order in which the set of negation words is walked.
C30_OrderIndependent ==
    /\ \A order \in NegationOrders :
           /\ Len(order) = Cardinality(negation_words)
           /\ {order[i] : i \in 1..Len(order)} = negation_words
    /\ probe.called =>
           /\ probe.result = ListedResult(probe.text)
           /\ probe.result = _handle_negation(probe.text)

\* a text with several negation words and no pattern, walked with a word it
\* does not hold first: the walk went through the set and returned None
C30_Witness ==
    /\ probe.called
    /\ probe.text = "Nothing was wonderful"
    /\ probe.order[1] = "never"
    /\ probe.result = None

\* a simple negation was found with the set walked from its last word
C30_WitnessFound ==
    /\ probe.called
    /\ probe.order[1] = "shouldn't"
    /\ probe.result = "bad"

=============================================================================
